---------------------------- MODULE Spec2Model ----------------------------
(***************************************************************************)
(* A model of nktkas/windows-screenshot:                                   *)
(*   - the capture engine (src/src/ScreenCapture.ts): its calls as         *)
(*     processes that run on one JavaScript thread, suspend at the three   *)
(*     nonblocking native calls, and acquire / release native handles;     *)
(*   - the BMP assembler (createBitmapBuffers) and the palettes, at the    *)
(*     level of bytes;                                                     *)
(*   - the BMP decoder (src/src/bmpToRgb.ts), at the level of bytes;       *)
(*   - the IEEE-754 double arithmetic the code uses for DPI scaling.       *)
(***************************************************************************)
EXTENDS Integers, Sequences, FiniteSets, TLC

(***************************************************************************)
(* Exact arithmetic on naturals of any size, as little-endian sequences of *)
(* 15-bit limbs.  It only serves to state IEEE-754 binary64 rounding       *)
(* (a 53-bit significand) without overflowing the checker's integers.      *)
(***************************************************************************)
LimbBase == 2^15

RECURSIVE BFromInt(_)
BFromInt(n) == IF n = 0 THEN <<>> ELSE <<n % LimbBase>> \o BFromInt(n \div LimbBase)

RECURSIVE BToInt(_)
BToInt(a) == IF a = <<>> THEN 0 ELSE a[1] + LimbBase * BToInt(Tail(a))

RECURSIVE BMulCarry(_, _, _)
BMulCarry(a, k, c) ==
    IF a = <<>> THEN BFromInt(c)
    ELSE LET t == a[1] * k + c
         IN  <<t % LimbBase>> \o BMulCarry(Tail(a), k, t \div LimbBase)

\* a * k, for 0 <= k < LimbBase
BMulSmall(a, k) == IF k = 0 THEN <<>> ELSE BMulCarry(a, k, 0)

RECURSIVE BStrip(_)
BStrip(a) == IF a # <<>> /\ a[Len(a)] = 0 THEN BStrip(SubSeq(a, 1, Len(a) - 1)) ELSE a

RECURSIVE BDivStep(_, _, _, _, _)
BDivStep(a, d, i, r, q) ==
    IF i = 0 THEN [q |-> BStrip(q), r |-> r]
    ELSE LET t == r * LimbBase + a[i]
         IN  BDivStep(a, d, i - 1, t % d, <<t \div d>> \o q)

\* quotient and remainder of a by d, for 0 < d < LimbBase
BDivSmall(a, d) == BDivStep(a, d, Len(a), 0, <<>>)

RECURSIVE BShl(_, _)
BShl(a, t) == IF t = 0 THEN a
              ELSE IF t >= 14 THEN BShl(BMulSmall(a, 2^14), t - 14)
              ELSE BMulSmall(a, 2^t)

RECURSIVE BShr(_, _)
BShr(a, t) == IF t = 0 THEN a
              ELSE IF t >= 14 THEN BShr(BDivSmall(a, 2^14).q, t - 14)
              ELSE BDivSmall(a, 2^t).q

RECURSIVE BitLen(_)
BitLen(n) == IF n = 0 THEN 0 ELSE 1 + BitLen(n \div 2)

BBitLen(a) == IF a = <<>> THEN 0 ELSE 15 * (Len(a) - 1) + BitLen(a[Len(a)])

BOdd(a) == a # <<>> /\ a[1] % 2 = 1

RECURSIVE BInc(_)
BInc(a) == IF a = <<>> THEN <<1>>
           ELSE IF a[1] + 1 < LimbBase THEN <<a[1] + 1>> \o Tail(a)
           ELSE <<0>> \o BInc(Tail(a))

Abs(n) == IF n < 0 THEN -n ELSE n

(***************************************************************************)
(* IEEE-754 binary64 values, as the exact dyadic rational they denote:     *)
(* [neg, m, e] is (-1)^neg * m * 2^e with m a natural of at most 53 bits.  *)
(* Every operation rounds its exact result to nearest, ties to even, as    *)
(* JavaScript's Number arithmetic does.                                    *)
(***************************************************************************)
\* one implicit bit and 52 stored bits
SignificandBits == 1 + 52

\* the double nearest to (-1)^neg * p * 2^e
RoundToDouble(neg, p, e) ==
    LET \* q2 is p without its t - 1 lowest bits, q without its t lowest bits
        round(t, q2, q) ==
            [neg |-> neg,
             m |-> IF BOdd(q2) /\ (BShl(q2, t - 1) # p \/ BOdd(q)) THEN BInc(q) ELSE q,
             e |-> e + t]
        halve(t, q2) == round(t, q2, BShr(q2, 1))
        drop(t) == halve(t, BShr(p, t - 1))
        sized(n) == IF n <= SignificandBits THEN [neg |-> neg, m |-> p, e |-> e]
                    ELSE drop(n - SignificandBits)
    IN  sized(BBitLen(p))

\* the double a / d of JavaScript, for integers 0 <= a and 0 < d, both < LimbBase
FDivInt(a, d) ==
    IF a = 0 THEN [neg |-> FALSE, m |-> <<>>, e |-> 0]
    ELSE LET \* qr is the quotient and remainder of a * 2^s by d
             round(qr, s) ==
                 [neg |-> FALSE,
                  m |-> IF 2 * qr.r > d \/ (2 * qr.r = d /\ BOdd(qr.q))
                        THEN BInc(qr.q) ELSE qr.q,
                  e |-> -s]
             scaled(s) == round(BDivSmall(BShl(BFromInt(a), s), d), s)
             fit(s0) == scaled(IF BBitLen(BDivSmall(BShl(BFromInt(a), s0), d).q)
                                      > SignificandBits
                               THEN s0 - 1 ELSE s0)
         IN  fit(SignificandBits + BitLen(d) - BitLen(a))

\* the double l * x of JavaScript, for an integer l with |l| < LimbBase
FMulInt(l, x) ==
    IF l = 0 \/ x.m = <<>> THEN [neg |-> FALSE, m |-> <<>>, e |-> 0]
    ELSE RoundToDouble(x.neg # (l < 0), BMulSmall(x.m, Abs(l)), x.e)

\* floor of |x| and whether |x| has a fractional part
FMagnitude(x) ==
    IF x.e >= 0 THEN [int |-> BToInt(BShl(x.m, x.e)), frac |-> FALSE]
    ELSE LET split(q) == [int |-> BToInt(q), frac |-> BShl(q, -x.e) # x.m]
         IN  split(BShr(x.m, -x.e))

\* Math.ceil
FCeil(x) ==
    LET up(g) == IF x.neg THEN -g.int ELSE g.int + (IF g.frac THEN 1 ELSE 0)
    IN  up(FMagnitude(x))

\* Math.floor
FFloor(x) ==
    LET down(g) == IF x.neg THEN -(g.int + (IF g.frac THEN 1 ELSE 0)) ELSE g.int
    IN  down(FMagnitude(x))


(***************************************************************************)
(* Bounds of the model.                                                    *)
(***************************************************************************)
\* calls of the engine that can be in flight at once
NumCalls == 1
\* close() / [Symbol.dispose]() invocations in one run
MaxCloses == 2
\* what GetDeviceCaps reports for DESKTOP_HORZRES / DESKTOP_VERTRES
ScreenW == 2
ScreenH == 2

Procs == 1..NumCalls

VARIABLES
    libOpen,      \* [user32, gdi32] -> is the Deno.dlopen handle still open
    closeCalls,   \* [user32, gdi32] -> how often DynamicLibrary.close() was invoked
    closeErr,     \* did a close() of the engine raise
    crashed,      \* the process died in a native call through an unloaded library
    closedUse,    \* was a native function dispatched through a closed library
    running,      \* the call that holds the JavaScript thread, 0 when the event loop is idle
    held,         \* the native handles acquired and not yet released
    proc,         \* per call in flight: its frame (operation, position, locals)
    last,         \* the outcome of the call that completed in the last step, if one did
    includeCursor, \* the engine's includeCursor option
    dpiAware,     \* has SetProcessDPIAware() of this engine made the process DPI aware
    job           \* the byte buffers of one capture or of one decoding, outside the engine

engineVars == <<libOpen, closeCalls, closeErr, crashed, closedUse, running, held,
                proc, last, includeCursor, dpiAware>>

(***************************************************************************)
(* Native handles.  The OS hands out a handle that no live object has;     *)
(* the model takes the lowest identifier that is free among those of the   *)
(* acquiring call (identifiers are opaque, so the choice is canonical).    *)
(***************************************************************************)
Null  == [kind |-> "null", owner |-> 0, id |-> 0]
\* the bitmap a fresh memory DC has selected (a stock object, not acquired)
Stock == [kind |-> "stock", owner |-> 0, id |-> 0]

\* a call holds at most three bitmaps at once: its own and the cursor's two
SlotsPerCall == 1..3

AllocIn(p, kind, S) ==
    [kind |-> kind, owner |-> p,
     id   |-> CHOOSE i \in SlotsPerCall :
                 /\ [kind |-> kind, owner |-> p, id |-> i] \notin S
                 /\ \A j \in 1..(i - 1) : [kind |-> kind, owner |-> p, id |-> j] \in S]

Alloc(p, kind) == AllocIn(p, kind, held)

(***************************************************************************)
(* Inputs of the calls.                                                    *)
(***************************************************************************)
\* Partial<Rect> arguments of captureScreen: "has" lists the fields given
RectArgs == <<
    [has |-> {}, left |-> 0, top |-> 0, right |-> 0, bottom |-> 0],
    [has |-> {"left", "top", "right", "bottom"},
     left |-> -10, top |-> 0, right |-> -10, bottom |-> 5],
    [has |-> {"left", "top"}, left |-> 0, top |-> 1, right |-> 0, bottom |-> 0],
    [has |-> {"top", "bottom"}, left |-> 0, top |-> 3, right |-> 0, bottom |-> 1] >>

\* rect?.f ?? d
Coalesce(rect, f, d) == IF f \in rect.has THEN rect[f] ELSE d

\* The top-level windows in OS sibling order (FindWindowExW order).  threadId
\* is the thread that created the window: it is what GetWindowThreadProcessId
\* returns, the process id being stored through its second argument only.
WindowChain == <<
    [hwnd |-> 1, visible |-> FALSE, title |-> "A", className |-> "C1", processId |-> 7,
     threadId |-> 17,
     rect |-> [left |-> 0, top |-> 0, right |-> 2, bottom |-> 2], dpi |-> 96],
    [hwnd |-> 2, visible |-> TRUE, title |-> "A", className |-> "C1", processId |-> 7,
     threadId |-> 8,
     rect |-> [left |-> -1, top |-> 0, right |-> 1, bottom |-> 2], dpi |-> 96],
    [hwnd |-> 3, visible |-> TRUE, title |-> "", className |-> "C2", processId |-> 8,
     threadId |-> 9,
     rect |-> [left |-> 120, top |-> 5, right |-> 120, bottom |-> 9], dpi |-> 100] >>

\* WindowIdentifier arguments
IdentArgs == <<
    [by |-> "title", title |-> "A"],
    [by |-> "title", title |-> "Z"],
    [by |-> "className", className |-> "C2"],
    [by |-> "processId", processId |-> 8],
    [by |-> "handle", handle |-> 2],
    [by |-> "handle", handle |-> 1] >>

NoRect == [left |-> 0, top |-> 0, right |-> 0, bottom |-> 0]

\* the frame of a call slot that is not in use
IdleProc ==
    [op |-> "idle", pc |-> "idle", arg |-> 0,
     left |-> 0, top |-> 0, width |-> 0, height |-> 0, hwnd |-> 0,
     hGsr |-> Null, hSrc |-> Null, hMem |-> Null, hBmp |-> Null, hOld |-> Null,
     hMask |-> Null, hColor |-> Null,
     idx |-> 0, list |-> <<>>,
     err |-> "none", rows |-> 0, calls |-> {}, born |-> "open", aware |-> FALSE]

NoOutcome ==
    [op |-> "none", status |-> "none", err |-> "none", width |-> 0, height |-> 0,
     rows |-> 0, rect |-> NoRect, list |-> <<>>, calls |-> {}, born |-> "open",
     arg |-> 0, slot |-> 0, hwnd |-> 0, aware |-> FALSE]


(***************************************************************************)
(* Control of one call.  JavaScript runs a call without interruption until *)
(* it awaits or completes: "running" is the call that holds the thread.    *)
(***************************************************************************)
\* the library through which the native call at position pc is dispatched
LibOf(pc) ==
    IF pc \in {"memdc", "bitmap", "select", "blit_cs", "gsr_caps", "getdibits",
               "cur_delmask", "cur_delcolor", "fin_select", "fin_delobj", "fin_deldc"}
    THEN "gdi32" ELSE "user32"

\* call p is at position pc and holds the thread
At(p, pc) == ~crashed /\ running = p /\ proc[p].pc = pc

\* the native functions fns are dispatched by call p at its current position
Dispatch(p, fns) ==
    closedUse' = (closedUse \/ (fns # {} /\ ~libOpen[LibOf(proc[p].pc)]))

\* the outcome record of call p ending with error kind err ("none": it returned)
Outcome(p, err, rows, rect, list, fns) ==
    [op |-> proc[p].op, status |-> IF err = "none" THEN "ok" ELSE "error", err |-> err,
     width |-> proc[p].width, height |-> proc[p].height, rows |-> rows,
     rect |-> rect, list |-> list, calls |-> proc[p].calls \cup fns,
     born |-> proc[p].born, arg |-> proc[p].arg, slot |-> p, hwnd |-> proc[p].hwnd,
     aware |-> proc[p].aware]

\* call p returns or throws to its caller
Complete(p, err, rows, rect, list, fns) ==
    /\ proc' = [proc EXCEPT ![p] = IdleProc]
    /\ last' = Outcome(p, err, rows, rect, list, fns)
    /\ running' = 0

\* (mutant) every step of a call gives the thread up
GotoYielding(p, f) == proc' = [proc EXCEPT ![p] = f] /\ running' = 0 /\ last' = NoOutcome

\* call p goes on, on the thread, with frame f
Goto(p, f) == proc' = [proc EXCEPT ![p] = f] /\ running' = p /\ last' = NoOutcome

\* a call of operation op with argument arg enters slot p; the frame notes
\* whether the libraries were open and the process DPI aware at that moment
Enter(p, op, pc, arg) ==
    /\ ~crashed /\ running = 0 /\ proc[p].op = "idle"
    /\ proc' = [proc EXCEPT ![p] = [IdleProc EXCEPT !.op = op, !.pc = pc, !.arg = arg,
                   !.born = IF libOpen["user32"] /\ libOpen["gdi32"] THEN "open" ELSE "closed",
                   !.aware = dpiAware]]
    /\ running' = p
    /\ last' = NoOutcome
    /\ UNCHANGED <<libOpen, closeCalls, closeErr, crashed, closedUse, held, includeCursor, dpiAware, job>>

\* A native call through a library that close() has unloaded is undefined
\* behaviour: the process may die in it (or it may run as if nothing happened,
\* which the steps below allow).
UseAfterClose(p) ==
    /\ ~crashed /\ running = p
    /\ ~libOpen[LibOf(proc[p].pc)]
    /\ crashed' = TRUE
    /\ closedUse' = TRUE
    /\ last' = NoOutcome
    /\ UNCHANGED <<libOpen, closeCalls, closeErr, running, held, proc, includeCursor, dpiAware, job>>

(***************************************************************************)
(* getScreenRect, also the first step of captureScreen.                    *)
(***************************************************************************)
StartGetScreenRect(p) == Enter(p, "getScreenRect", "gsr_getdc", 0)

GsrGetDC(p) ==
    /\ At(p, "gsr_getdc")
    /\ Dispatch(p, {"GetDCEx"})
    /\ \E ok \in BOOLEAN :
         IF ok
         THEN /\ held' = held \cup {Alloc(p, "dc")}
              /\ Goto(p, [proc[p] EXCEPT !.pc = "gsr_caps", !.hGsr = Alloc(p, "dc"),
                                         !.calls = @ \cup {"GetDCEx"}])
         ELSE /\ Complete(p, "DC_UNAVAILABLE", 0, NoRect, <<>>, {"GetDCEx"})
              /\ UNCHANGED held
    /\ UNCHANGED <<libOpen, closeCalls, closeErr, crashed, includeCursor, dpiAware, job>>

GsrGetDeviceCaps(p) ==
    /\ At(p, "gsr_caps")
    /\ Dispatch(p, {"GetDeviceCaps"})
    /\ Goto(p, [proc[p] EXCEPT !.pc = "gsr_rel", !.calls = @ \cup {"GetDeviceCaps"}])
    /\ UNCHANGED <<libOpen, closeCalls, closeErr, crashed, held, includeCursor, dpiAware, job>>

ScreenRect == [left |-> 0, top |-> 0, right |-> ScreenW, bottom |-> ScreenH]

\* the capture area of captureScreen(rect), from the screen rectangle
CaptureArea(rect, screen) ==
    LET left   == Coalesce(rect, "left", 0)
        top    == Coalesce(rect, "top", 0)
        right  == Coalesce(rect, "right", screen.right)
        bottom == Coalesce(rect, "bottom", screen.bottom)
    IN  [left |-> left, top |-> top, width |-> right - left, height |-> bottom - top]

\* (mutant) an empty area passes the test
InvalidAreaStrict(width, height) == width < 0 \/ height < 0

\* if (width <= 0 || height <= 0) throw
InvalidArea(width, height) == width <= 0 \/ height <= 0

GsrReleaseDC(p) ==
    /\ At(p, "gsr_rel")
    /\ Dispatch(p, {"ReleaseDC"})
    /\ held' = held \ {proc[p].hGsr}
    /\ IF proc[p].op = "getScreenRect"
       THEN Complete(p, "none", 0, ScreenRect, <<>>, {"ReleaseDC"})
       ELSE LET a == CaptureArea(RectArgs[proc[p].arg], ScreenRect)
                f == [proc[p] EXCEPT !.hGsr = Null, !.calls = @ \cup {"ReleaseDC"},
                                     !.left = a.left, !.top = a.top,
                                     !.width = a.width, !.height = a.height]
            IN  IF InvalidArea(a.width, a.height)
                THEN /\ proc' = [proc EXCEPT ![p] = IdleProc]
                     /\ last' = [Outcome(p, "INVALID_REGION", 0, NoRect, <<>>,
                                         {"ReleaseDC"})
                                   EXCEPT !.width = a.width, !.height = a.height]
                     /\ running' = 0
                ELSE Goto(p, [f EXCEPT !.pc = "getdc"])
    /\ UNCHANGED <<libOpen, closeCalls, closeErr, crashed, includeCursor, dpiAware, job>>


(***************************************************************************)
(* The nested try / finally blocks of captureScreen and captureWindow.     *)
(* A stage names the innermost try block entered: "src" after the source   *)
(* DC, "mem" after the memory DC, "bmp" after the bitmap, "sel" after the  *)
(* bitmap was selected.                                                    *)
(***************************************************************************)
\* (mutant) the bitmap's finally block is missing
FinallyEntryLeaky(stage) ==
    CASE stage = "sel" -> "fin_select"
      [] stage = "bmp" -> "fin_deldc"
      [] stage = "mem" -> "fin_deldc"
      [] stage = "src" -> "fin_reldc"

\* (mutant) the innermost finally block, which restores the selection, is missing
FinallyEntryNoRestore(stage) ==
    CASE stage = "sel" -> "fin_delobj"
      [] stage = "bmp" -> "fin_delobj"
      [] stage = "mem" -> "fin_deldc"
      [] stage = "src" -> "fin_reldc"

\* the first finally block that runs when control leaves the try of a stage
FinallyEntry(stage) ==
    CASE stage = "sel" -> "fin_select"
      [] stage = "bmp" -> "fin_delobj"
      [] stage = "mem" -> "fin_deldc"
      [] stage = "src" -> "fin_reldc"

\* throw new Error(err) inside the try block of a stage, after dispatching fns
Throw(p, err, stage, fns) ==
    Goto(p, [proc[p] EXCEPT !.err = err, !.pc = FinallyEntry(stage),
                            !.calls = @ \cup fns])

\* go on at pc after dispatching fns
Advance(p, pc, fns) == Goto(p, [proc[p] EXCEPT !.pc = pc, !.calls = @ \cup fns])

CaptureOps == {"captureScreen", "captureWindow"}

\* GetDCEx for the screen (captureScreen) or the window (captureWindow)
GetDC(p) ==
    /\ At(p, "getdc")
    /\ Dispatch(p, {"GetDCEx"})
    /\ \E ok \in BOOLEAN :
         IF ok
         THEN /\ held' = held \cup {Alloc(p, "dc")}
              /\ Goto(p, [proc[p] EXCEPT !.pc = "memdc", !.hSrc = Alloc(p, "dc"),
                                         !.calls = @ \cup {"GetDCEx"}])
         ELSE /\ Complete(p, "DC_UNAVAILABLE", 0, NoRect, <<>>, {"GetDCEx"})
              /\ UNCHANGED held
    /\ UNCHANGED <<libOpen, closeCalls, closeErr, crashed, includeCursor, dpiAware, job>>

CreateCompatibleDC(p) ==
    /\ At(p, "memdc")
    /\ Dispatch(p, {"CreateCompatibleDC"})
    /\ \E ok \in BOOLEAN :
         IF ok
         THEN /\ held' = held \cup {Alloc(p, "memdc")}
              /\ Goto(p, [proc[p] EXCEPT !.pc = "bitmap", !.hMem = Alloc(p, "memdc"),
                                         !.calls = @ \cup {"CreateCompatibleDC"}])
         ELSE /\ Throw(p, "MEMDC_FAILED", "src", {"CreateCompatibleDC"})
              /\ UNCHANGED held
    /\ UNCHANGED <<libOpen, closeCalls, closeErr, crashed, includeCursor, dpiAware, job>>

\* CreateDIBSection (captureScreen) or CreateCompatibleBitmap (captureWindow)
BitmapFn(op) == IF op = "captureScreen" THEN "CreateDIBSection" ELSE "CreateCompatibleBitmap"

CreateBitmap(p) ==
    /\ At(p, "bitmap")
    /\ Dispatch(p, {BitmapFn(proc[p].op)})
    /\ \E ok \in BOOLEAN :
         IF ok
         THEN /\ held' = held \cup {Alloc(p, "bitmap")}
              /\ Goto(p, [proc[p] EXCEPT !.pc = "select", !.hBmp = Alloc(p, "bitmap"),
                                         !.calls = @ \cup {BitmapFn(proc[p].op)}])
         ELSE /\ Throw(p, "BITMAP_FAILED", "mem", {BitmapFn(proc[p].op)})
              /\ UNCHANGED held
    /\ UNCHANGED <<libOpen, closeCalls, closeErr, crashed, includeCursor, dpiAware, job>>

SelectBitmap(p) ==
    /\ At(p, "select")
    /\ Dispatch(p, {"SelectObject"})
    /\ \E ok \in BOOLEAN :
         IF ok
         THEN Goto(p, [proc[p] EXCEPT !.hOld = Stock, !.calls = @ \cup {"SelectObject"},
                          !.pc = IF proc[p].op = "captureScreen" THEN "blit_cs"
                                 ELSE "blit_cw"])
         ELSE Throw(p, "SELECT_FAILED", "bmp", {"SelectObject"})
    /\ UNCHANGED <<libOpen, closeCalls, closeErr, crashed, held, includeCursor, dpiAware, job>>

\* await BitBlt(...) / await PrintWindow(...): the call is dispatched and the
\* JavaScript thread is given up until it completes
BlitFn(op) == IF op = "captureScreen" THEN "BitBlt" ELSE "PrintWindow"

StartBlit(p) ==
    /\ (At(p, "blit_cs") \/ At(p, "blit_cw"))
    /\ Dispatch(p, {BlitFn(proc[p].op)})
    /\ proc' = [proc EXCEPT ![p] = [@ EXCEPT !.pc = "blit_wait",
                                             !.calls = @ \cup {BlitFn(proc[p].op)}]]
    /\ running' = 0
    /\ last' = NoOutcome
    /\ UNCHANGED <<libOpen, closeCalls, closeErr, crashed, held, includeCursor, dpiAware, job>>

\* what follows the cursor block inside the innermost try
AfterCursor(p, f) ==
    IF f.op = "captureScreen"
    THEN \* copyInto(pixelsPtr, bmpBuffer.subarray(pixelDataOffset)); return bmpBuffer
         Goto(p, [f EXCEPT !.rows = f.height, !.pc = FinallyEntry("sel")])
    ELSE Goto(p, [f EXCEPT !.pc = "getdibits"])

FinishBlit(p) ==
    /\ ~crashed /\ running = 0 /\ proc[p].pc = "blit_wait"
    /\ \E ok \in BOOLEAN :
         IF ~ok
         THEN Throw(p, IF proc[p].op = "captureScreen" THEN "BLIT_FAILED"
                       ELSE "PRINT_FAILED", "sel", {})
         ELSE IF includeCursor
              THEN Advance(p, "cur_info", {})
              ELSE AfterCursor(p, proc[p])
    /\ UNCHANGED <<libOpen, closeCalls, closeErr, crashed, closedUse, held, includeCursor, dpiAware, job>>


(***************************************************************************)
(* drawCursorOnDC, run inside the innermost try of a capture.              *)
(***************************************************************************)
\* GetCursorInfo, the flags test and the cursor handle test
CursorInfo(p) ==
    /\ At(p, "cur_info")
    /\ Dispatch(p, {"GetCursorInfo"})
    /\ \E r \in {"failed", "hidden", "nohandle", "showing"} :
         CASE r = "failed"   -> Throw(p, "CURSOR_UNAVAILABLE", "sel", {"GetCursorInfo"})
           [] r = "hidden"   -> AfterCursor(p, [proc[p] EXCEPT
                                                  !.calls = @ \cup {"GetCursorInfo"}])
           [] r = "nohandle" -> Throw(p, "CURSOR_HANDLE", "sel", {"GetCursorInfo"})
           [] r = "showing"  -> Advance(p, "cur_icon", {"GetCursorInfo"})
    /\ UNCHANGED <<libOpen, closeCalls, closeErr, crashed, held, includeCursor, dpiAware, job>>

\* GetIconInfo: on success the OS creates the mask bitmap and, for a colour
\* cursor, the colour bitmap
IconInfo(p) ==
    /\ At(p, "cur_icon")
    /\ Dispatch(p, {"GetIconInfo"})
    /\ \E ok \in BOOLEAN, colour \in BOOLEAN :
         IF ok
         THEN LET mask == Alloc(p, "bitmap")
                  col  == IF colour THEN AllocIn(p, "bitmap", held \cup {mask}) ELSE Null
              IN  /\ held' = (held \cup {mask, col}) \ {Null}
                  /\ Goto(p, [proc[p] EXCEPT !.pc = "cur_aware", !.hMask = mask,
                                !.hColor = col, !.calls = @ \cup {"GetIconInfo"}])
         ELSE /\ Throw(p, "ICON_INFO", "sel", {"GetIconInfo"})
              /\ UNCHANGED held
    /\ UNCHANGED <<libOpen, closeCalls, closeErr, crashed, includeCursor, dpiAware, job>>

\* (mutant) drawCursorOnDC has no finally block
CursorThrowPastFinally(p, err, fns) == Throw(p, err, "sel", fns)

\* throw inside the try of drawCursorOnDC: its finally block runs first
CursorThrow(p, err, fns) ==
    Goto(p, [proc[p] EXCEPT !.err = err, !.pc = "cur_delmask", !.calls = @ \cup fns])

SetDpiAware(p) ==
    /\ At(p, "cur_aware")
    /\ Dispatch(p, {"SetProcessDPIAware"})
    /\ \E ok \in BOOLEAN :
         IF ok THEN Advance(p, "cur_dpi", {"SetProcessDPIAware"}) /\ dpiAware' = TRUE
         ELSE CursorThrow(p, "DPI_AWARE", {"SetProcessDPIAware"}) /\ UNCHANGED dpiAware
    /\ UNCHANGED <<libOpen, closeCalls, closeErr, crashed, held, includeCursor, job>>

SystemDpi(p) ==
    /\ At(p, "cur_dpi")
    /\ Dispatch(p, {"GetDpiForSystem"})
    /\ \E ok \in BOOLEAN :
         IF ok THEN Advance(p, "cur_draw", {"GetDpiForSystem"})
         ELSE CursorThrow(p, "SYSTEM_DPI", {"GetDpiForSystem"})
    /\ UNCHANGED <<libOpen, closeCalls, closeErr, crashed, held, includeCursor, dpiAware, job>>

DrawIcon(p) ==
    /\ At(p, "cur_draw")
    /\ Dispatch(p, {"DrawIconEx"})
    /\ \E ok \in BOOLEAN :
         IF ok THEN Advance(p, "cur_delmask", {"DrawIconEx"})
         ELSE CursorThrow(p, "DRAW_CURSOR", {"DrawIconEx"})
    /\ UNCHANGED <<libOpen, closeCalls, closeErr, crashed, held, includeCursor, dpiAware, job>>

\* leaving the finally block of drawCursorOnDC: a pending error goes on to the
\* finally blocks of the capture, otherwise the capture goes on
LeaveCursor(p, f) ==
    IF f.err # "none" THEN Goto(p, [f EXCEPT !.pc = FinallyEntry("sel")])
    ELSE AfterCursor(p, f)

DeleteMask(p) ==
    /\ At(p, "cur_delmask")
    /\ Dispatch(p, {"DeleteObject"})
    /\ held' = held \ {proc[p].hMask}
    /\ LET f == [proc[p] EXCEPT !.hMask = Null, !.calls = @ \cup {"DeleteObject"}]
       IN  IF f.hColor # Null THEN Goto(p, [f EXCEPT !.pc = "cur_delcolor"])
           ELSE LeaveCursor(p, f)
    /\ UNCHANGED <<libOpen, closeCalls, closeErr, crashed, includeCursor, dpiAware, job>>

DeleteColor(p) ==
    /\ At(p, "cur_delcolor")
    /\ Dispatch(p, {"DeleteObject"})
    /\ held' = held \ {proc[p].hColor}
    /\ LeaveCursor(p, [proc[p] EXCEPT !.hColor = Null])
    /\ UNCHANGED <<libOpen, closeCalls, closeErr, crashed, includeCursor, dpiAware, job>>

(***************************************************************************)
(* captureWindow: createBitmapBuffers and await GetDIBits.                 *)
(***************************************************************************)
StartGetDIBits(p) ==
    /\ At(p, "getdibits")
    /\ Dispatch(p, {"GetDIBits"})
    /\ proc' = [proc EXCEPT ![p] = [@ EXCEPT !.pc = "getdibits_wait",
                                             !.calls = @ \cup {"GetDIBits"}]]
    /\ running' = 0
    /\ last' = NoOutcome
    /\ UNCHANGED <<libOpen, closeCalls, closeErr, crashed, held, includeCursor, dpiAware, job>>

\* is the value GetDIBits returned (the number of scan lines it copied) taken
\* as a failure: the code tests it for truthiness only
GetDIBitsFailed(n, height) == n = 0

FinishGetDIBits(p) ==
    /\ ~crashed /\ running = 0 /\ proc[p].pc = "getdibits_wait"
    /\ \E n \in 0..proc[p].height :
         IF GetDIBitsFailed(n, proc[p].height)
         THEN Throw(p, "GET_BITS_FAILED", "sel", {})
         ELSE Goto(p, [proc[p] EXCEPT !.rows = n, !.pc = FinallyEntry("sel")])
    /\ UNCHANGED <<libOpen, closeCalls, closeErr, crashed, closedUse, held, includeCursor, dpiAware, job>>

(***************************************************************************)
(* The finally blocks of a capture, innermost first.                       *)
(***************************************************************************)
RestoreBitmap(p) ==
    /\ At(p, "fin_select")
    /\ Dispatch(p, {"SelectObject"})
    /\ Goto(p, [proc[p] EXCEPT !.pc = "fin_delobj", !.hOld = Null])
    /\ UNCHANGED <<libOpen, closeCalls, closeErr, crashed, held, includeCursor, dpiAware, job>>

DeleteBitmap(p) ==
    /\ At(p, "fin_delobj")
    /\ Dispatch(p, {"DeleteObject"})
    /\ held' = held \ {proc[p].hBmp}
    /\ Goto(p, [proc[p] EXCEPT !.pc = "fin_deldc", !.hBmp = Null,
                               !.calls = @ \cup {"DeleteObject"}])
    /\ UNCHANGED <<libOpen, closeCalls, closeErr, crashed, includeCursor, dpiAware, job>>

DeleteDC(p) ==
    /\ At(p, "fin_deldc")
    /\ Dispatch(p, {"DeleteDC"})
    /\ held' = held \ {proc[p].hMem}
    /\ Goto(p, [proc[p] EXCEPT !.pc = "fin_reldc", !.hMem = Null,
                               !.calls = @ \cup {"DeleteDC"}])
    /\ UNCHANGED <<libOpen, closeCalls, closeErr, crashed, includeCursor, dpiAware, job>>

ReleaseDC(p) ==
    /\ At(p, "fin_reldc")
    /\ Dispatch(p, {"ReleaseDC"})
    /\ held' = held \ {proc[p].hSrc}
    /\ Complete(p, proc[p].err, proc[p].rows, NoRect, <<>>, {"ReleaseDC"})
    /\ UNCHANGED <<libOpen, closeCalls, closeErr, crashed, includeCursor, dpiAware, job>>


(***************************************************************************)
(* findWindow, getWindowRect, getWindowList.                               *)
(***************************************************************************)
WindowOf(h) == CHOOSE w \in {WindowChain[i] : i \in 1..Len(WindowChain)} : w.hwnd = h

\* The loop of findWindow from the i-th window of the chain.  failAt is the
\* window at which the OS fails the property read (GetWindowTextW,
\* GetClassNameW or GetWindowThreadProcessId returns 0), 0 for none.
RECURSIVE FindFrom(_, _, _)
FindFrom(ident, i, failAt) ==
    IF i > Len(WindowChain)
    THEN [status |-> "notfound", hwnd |-> 0, err |-> "none", visited |-> i - 1]
    ELSE LET w     == WindowChain[i]
             found == [status |-> "found", hwnd |-> w.hwnd, err |-> "none", visited |-> i]
             next  == FindFrom(ident, i + 1, failAt)
         IN  IF ~w.visible THEN next
             ELSE CASE ident.by = "title" ->
                         IF (IF failAt = i THEN "" ELSE w.title) = ident.title
                         THEN found ELSE next
                    [] ident.by = "className" ->
                         IF failAt = i
                         THEN [status |-> "throw", hwnd |-> 0,
                               err |-> "CLASS_NAME_UNAVAILABLE", visited |-> i]
                         ELSE IF w.className = ident.className THEN found ELSE next
                    [] ident.by = "processId" ->
                         IF failAt = i
                         THEN [status |-> "throw", hwnd |-> 0,
                               err |-> "PROCESS_ID_UNAVAILABLE", visited |-> i]
                         \* GetWindowThreadProcessId(handle, null) === processId
                         ELSE IF w.threadId = ident.processId THEN found ELSE next

\* findWindow(identifier); empty: the first FindWindowExW returns null
FindWindow(ident, empty, failAt) ==
    IF ident.by = "handle"
    THEN [status |-> "found", hwnd |-> ident.handle, err |-> "none", visited |-> 0]
    ELSE IF empty
         THEN [status |-> "throw", hwnd |-> 0, err |-> "ENUM_FAILED", visited |-> 0]
         ELSE FindFrom(ident, 1, failAt)

\* the native functions findWindow dispatched
FindCalls(ident, r) ==
    IF ident.by = "handle" THEN {}
    ELSE {"FindWindowExW"} \cup
         (IF r.visited > 0 THEN {"IsWindowVisible"} ELSE {}) \cup
         (IF \E i \in 1..r.visited : WindowChain[i].visible
          THEN {CASE ident.by = "title" -> "GetWindowTextW"
                  [] ident.by = "className" -> "GetClassNameW"
                  [] ident.by = "processId" -> "GetWindowThreadProcessId"}
          ELSE {})

StartCaptureWindow(p, a) == Enter(p, "captureWindow", "find", a)
StartGetWindowRect(p, a) == Enter(p, "getWindowRect", "find", a)

\* const handle = this.findWindow(identifier); if (handle === null) throw ...
ResolveWindow(p) ==
    /\ At(p, "find")
    /\ \E empty \in BOOLEAN, failAt \in 0..Len(WindowChain) :
         LET r   == FindWindow(IdentArgs[proc[p].arg], empty, failAt)
             fns == FindCalls(IdentArgs[proc[p].arg], r)
         IN  /\ Dispatch(p, fns)
             /\ CASE r.status = "throw" ->
                       Complete(p, r.err, 0, NoRect, <<>>, fns)
                  [] r.status = "notfound" ->
                       Complete(p, "WINDOW_NOT_FOUND", 0, NoRect, <<>>, fns)
                  [] r.status = "found" ->
                       Goto(p, [proc[p] EXCEPT !.pc = "gwr_rect", !.hwnd = r.hwnd,
                                               !.calls = @ \cup fns])
    /\ UNCHANGED <<libOpen, closeCalls, closeErr, crashed, held, includeCursor, dpiAware, job>>

\* GetWindowRect(handle, rectPtr)
ReadWindowRect(p) ==
    /\ At(p, "gwr_rect")
    /\ Dispatch(p, {"GetWindowRect"})
    /\ \E ok \in BOOLEAN :
         IF ok THEN Advance(p, "gwr_dpi", {"GetWindowRect"})
         ELSE Complete(p, "OS_FAILURE", 0, NoRect, <<>>, {"GetWindowRect"})
    /\ UNCHANGED <<libOpen, closeCalls, closeErr, crashed, held, includeCursor, dpiAware, job>>

\* Math.ceil(edge * (dpi / 96)), in double arithmetic
ScaleEdge(edge, dpi) == FCeil(FMulInt(edge, FDivInt(dpi, 96)))

\* the position object of getWindowRect
WindowPosition(raw, dpi) ==
    [left  |-> ScaleEdge(raw.left, dpi),  top    |-> ScaleEdge(raw.top, dpi),
     right |-> ScaleEdge(raw.right, dpi), bottom |-> ScaleEdge(raw.bottom, dpi)]

\* the entry getWindowList pushes for window w at position pos; its processId
\* is the value GetWindowThreadProcessId(handle, null) returned
WindowInfo(w, pos) ==
    [handle |-> w.hwnd, title |-> w.title, className |-> w.className,
     processId |-> w.threadId, position |-> pos]

\* (mutant) the loop ends after the first window it looked at
NextWindowStops(p, f, fns) ==
    /\ proc' = [proc EXCEPT ![p] = IdleProc]
    /\ last' = [Outcome(p, "none", 0, NoRect, f.list, fns \cup {"FindWindowExW"})
                  EXCEPT !.calls = f.calls \cup fns \cup {"FindWindowExW"}]
    /\ running' = 0

\* handle = FindWindowExW(null, handle, null, null); while (handle !== null)
NextWindow(p, f, fns) ==
    IF f.idx + 1 > Len(WindowChain)
    THEN /\ proc' = [proc EXCEPT ![p] = IdleProc]
         /\ last' = [Outcome(p, "none", 0, NoRect, f.list, fns \cup {"FindWindowExW"})
                       EXCEPT !.calls = f.calls \cup fns \cup {"FindWindowExW"}]
         /\ running' = 0
    ELSE Goto(p, [f EXCEPT !.idx = f.idx + 1, !.pc = "gwl_window", !.hwnd = 0,
                           !.calls = @ \cup fns \cup {"FindWindowExW"}])

\* GetDpiForWindow(handle) and the scaling; then what the caller of
\* getWindowRect does with the rectangle
ReadWindowDpi(p) ==
    /\ At(p, "gwr_dpi")
    /\ Dispatch(p, {"GetDpiForWindow"})
    /\ \E dpi \in {0, WindowOf(proc[p].hwnd).dpi} :
         IF dpi = 0
         THEN Complete(p, "DPI_UNAVAILABLE", 0, NoRect, <<>>, {"GetDpiForWindow"})
         ELSE LET pos == WindowPosition(WindowOf(proc[p].hwnd).rect, dpi)
                  f   == [proc[p] EXCEPT !.calls = @ \cup {"GetDpiForWindow"}]
              IN  CASE f.op = "getWindowRect" ->
                         Complete(p, "none", 0, pos, <<>>, {"GetDpiForWindow"})
                    [] f.op = "getWindowList" ->
                         NextWindow(p, [f EXCEPT !.list = Append(@,
                                          WindowInfo(WindowOf(f.hwnd), pos))], {})
                    [] f.op = "captureWindow" ->
                         LET w == pos.right - pos.left
                             h == pos.bottom - pos.top
                             g == [f EXCEPT !.left = pos.left, !.top = pos.top,
                                            !.width = w, !.height = h]
                         IN  IF InvalidArea(w, h)
                             THEN /\ proc' = [proc EXCEPT ![p] = IdleProc]
                                  /\ last' = [Outcome(p, "INVALID_REGION", 0, NoRect, <<>>,
                                                      {"GetDpiForWindow"})
                                                EXCEPT !.width = w, !.height = h]
                                  /\ running' = 0
                             ELSE Goto(p, [g EXCEPT !.pc = "getdc"])
    /\ UNCHANGED <<libOpen, closeCalls, closeErr, crashed, held, includeCursor, dpiAware, job>>

StartGetWindowList(p) == Enter(p, "getWindowList", "gwl_first", 0)

\* let handle = FindWindowExW(null, null, null, null); if (handle === null) throw
FirstWindow(p) ==
    /\ At(p, "gwl_first")
    /\ Dispatch(p, {"FindWindowExW"})
    /\ \E empty \in BOOLEAN :
         IF empty
         THEN Complete(p, "ENUM_FAILED", 0, NoRect, <<>>, {"FindWindowExW"})
         ELSE Goto(p, [proc[p] EXCEPT !.idx = 1, !.pc = "gwl_window",
                                      !.calls = @ \cup {"FindWindowExW"}])
    /\ UNCHANGED <<libOpen, closeCalls, closeErr, crashed, held, includeCursor, dpiAware, job>>

\* one pass of the do-while body up to the call of getWindowRect
ListWindow(p) ==
    /\ At(p, "gwl_window")
    /\ Dispatch(p, {"IsWindowVisible"})
    /\ LET w == WindowChain[proc[p].idx]
       IN  IF ~w.visible THEN NextWindow(p, proc[p], {"IsWindowVisible"})
           ELSE \E f \in {"none", "CLASS_NAME_UNAVAILABLE", "PROCESS_ID_UNAVAILABLE",
                          "STYLE_UNAVAILABLE"} :
                  LET fns == {"IsWindowVisible", "GetWindowTextW", "GetClassNameW"} \cup
                             (IF f \in {"none", "PROCESS_ID_UNAVAILABLE", "STYLE_UNAVAILABLE"}
                              THEN {"GetWindowThreadProcessId"} ELSE {}) \cup
                             (IF f \in {"none", "STYLE_UNAVAILABLE"}
                              THEN {"GetWindowLongW"} ELSE {})
                  IN  IF f = "none"
                      THEN Goto(p, [proc[p] EXCEPT !.hwnd = w.hwnd, !.pc = "gwr_rect",
                                                   !.calls = @ \cup fns])
                      ELSE Complete(p, f, 0, NoRect, <<>>, fns)
    /\ UNCHANGED <<libOpen, closeCalls, closeErr, crashed, held, includeCursor, dpiAware, job>>

StartCaptureScreen(p, a) == Enter(p, "captureScreen", "gsr_getdc", a)

(***************************************************************************)
(* close() and [Symbol.dispose]().  DynamicLibrary.close() of a handle     *)
(* that is already closed is the runtime's business: it may raise (then    *)
(* the second library is not reached) or return.                           *)
(***************************************************************************)
CloseBody(raises) ==
    /\ ~crashed /\ running = 0
    /\ closeCalls["user32"] < MaxCloses
    /\ IF ~libOpen["user32"] /\ raises
       THEN /\ closeCalls' = [closeCalls EXCEPT !["user32"] = @ + 1]
            /\ closeErr' = TRUE
            /\ UNCHANGED libOpen
       ELSE /\ closeCalls' = [lib \in {"user32", "gdi32"} |-> closeCalls[lib] + 1]
            /\ libOpen' = [lib \in {"user32", "gdi32"} |-> FALSE]
            /\ closeErr' = (closeErr \/ (~libOpen["gdi32"] /\ raises))
    /\ last' = NoOutcome
    /\ UNCHANGED <<crashed, closedUse, running, held, proc, includeCursor, dpiAware, job>>

Close == \E raises \in BOOLEAN : CloseBody(raises)

Dispose == \E raises \in BOOLEAN : CloseBody(raises)


(***************************************************************************)
(* The engine: any interleaving of its calls and of close().               *)
(***************************************************************************)
vars == <<engineVars, job>>

EngineInit ==
    /\ libOpen = [lib \in {"user32", "gdi32"} |-> TRUE]
    /\ closeCalls = [lib \in {"user32", "gdi32"} |-> 0]
    /\ closeErr = FALSE
    /\ crashed = FALSE
    /\ closedUse = FALSE
    /\ running = 0
    /\ held = {}
    /\ proc = [p \in Procs |-> IdleProc]
    /\ last = NoOutcome
    /\ includeCursor \in BOOLEAN
    /\ dpiAware = FALSE

\* no buffer is under study while the engine runs
NoJob == [pc |-> "none"]

Init == EngineInit /\ job = NoJob

Next ==
    \/ \E p \in Procs, a \in 1..Len(RectArgs) : StartCaptureScreen(p, a)
    \/ \E p \in Procs, a \in 1..Len(IdentArgs) : StartCaptureWindow(p, a)
    \/ \E p \in Procs : StartGetScreenRect(p)
    \/ \E p \in Procs, a \in 1..Len(IdentArgs) : StartGetWindowRect(p, a)
    \/ \E p \in Procs : StartGetWindowList(p)
    \/ \E p \in Procs : GsrGetDC(p)
    \/ \E p \in Procs : GsrGetDeviceCaps(p)
    \/ \E p \in Procs : GsrReleaseDC(p)
    \/ \E p \in Procs : ResolveWindow(p)
    \/ \E p \in Procs : ReadWindowRect(p)
    \/ \E p \in Procs : ReadWindowDpi(p)
    \/ \E p \in Procs : FirstWindow(p)
    \/ \E p \in Procs : ListWindow(p)
    \/ \E p \in Procs : GetDC(p)
    \/ \E p \in Procs : CreateCompatibleDC(p)
    \/ \E p \in Procs : CreateBitmap(p)
    \/ \E p \in Procs : SelectBitmap(p)
    \/ \E p \in Procs : StartBlit(p)
    \/ \E p \in Procs : FinishBlit(p)
    \/ \E p \in Procs : CursorInfo(p)
    \/ \E p \in Procs : IconInfo(p)
    \/ \E p \in Procs : SetDpiAware(p)
    \/ \E p \in Procs : SystemDpi(p)
    \/ \E p \in Procs : DrawIcon(p)
    \/ \E p \in Procs : DeleteMask(p)
    \/ \E p \in Procs : DeleteColor(p)
    \/ \E p \in Procs : StartGetDIBits(p)
    \/ \E p \in Procs : FinishGetDIBits(p)
    \/ \E p \in Procs : RestoreBitmap(p)
    \/ \E p \in Procs : DeleteBitmap(p)
    \/ \E p \in Procs : DeleteDC(p)
    \/ \E p \in Procs : ReleaseDC(p)
    \/ \E p \in Procs : UseAfterClose(p)
    \/ Close
    \/ Dispose

Spec == Init /\ [][Next]_vars


(***************************************************************************)
(* Calls in flight together.  An async method runs until its first await,  *)
(* so a second call can start, and any call can go on, whenever the thread *)
(* is free: while captures wait for BitBlt, PrintWindow or GetDIBits.  The *)
(* libraries stay open here.                                               *)
(***************************************************************************)
\* calls that can be in flight together
NumOverlap == 2

Overlap == 1..NumOverlap

InitOverlap ==
    /\ libOpen = [lib \in {"user32", "gdi32"} |-> TRUE]
    /\ closeCalls = [lib \in {"user32", "gdi32"} |-> 0]
    /\ closeErr = FALSE
    /\ crashed = FALSE
    /\ closedUse = FALSE
    /\ running = 0
    /\ held = {}
    /\ proc = [p \in Overlap |-> IdleProc]
    /\ last = NoOutcome
    /\ includeCursor \in BOOLEAN
    /\ dpiAware = FALSE
    /\ job = NoJob

\* captureScreen(), captureWindow({handle: 2}), getScreenRect(),
\* getWindowRect({className: "C2"}) and getWindowList()
NextOverlap ==
    \/ \E p \in Overlap : StartCaptureScreen(p, 1)
    \/ \E p \in Overlap : StartCaptureWindow(p, 5)
    \/ \E p \in Overlap : StartGetScreenRect(p)
    \/ \E p \in Overlap : StartGetWindowRect(p, 3)
    \/ \E p \in Overlap : StartGetWindowList(p)
    \/ \E p \in Overlap : GsrGetDC(p)
    \/ \E p \in Overlap : GsrGetDeviceCaps(p)
    \/ \E p \in Overlap : GsrReleaseDC(p)
    \/ \E p \in Overlap : ResolveWindow(p)
    \/ \E p \in Overlap : ReadWindowRect(p)
    \/ \E p \in Overlap : ReadWindowDpi(p)
    \/ \E p \in Overlap : FirstWindow(p)
    \/ \E p \in Overlap : ListWindow(p)
    \/ \E p \in Overlap : GetDC(p)
    \/ \E p \in Overlap : CreateCompatibleDC(p)
    \/ \E p \in Overlap : CreateBitmap(p)
    \/ \E p \in Overlap : SelectBitmap(p)
    \/ \E p \in Overlap : StartBlit(p)
    \/ \E p \in Overlap : FinishBlit(p)
    \/ \E p \in Overlap : CursorInfo(p)
    \/ \E p \in Overlap : IconInfo(p)
    \/ \E p \in Overlap : SetDpiAware(p)
    \/ \E p \in Overlap : SystemDpi(p)
    \/ \E p \in Overlap : DrawIcon(p)
    \/ \E p \in Overlap : DeleteMask(p)
    \/ \E p \in Overlap : DeleteColor(p)
    \/ \E p \in Overlap : StartGetDIBits(p)
    \/ \E p \in Overlap : FinishGetDIBits(p)
    \/ \E p \in Overlap : RestoreBitmap(p)
    \/ \E p \in Overlap : DeleteBitmap(p)
    \/ \E p \in Overlap : DeleteDC(p)
    \/ \E p \in Overlap : ReleaseDC(p)

SpecOverlap == InitOverlap /\ [][NextOverlap]_vars


(***************************************************************************)
(* Properties of the engine.                                               *)
(***************************************************************************)
AllIdle == \A p \in Procs : proc[p].op = "idle"
LibsOpen == libOpen["user32"] /\ libOpen["gdi32"]

\* C1: when every call of captureScreen, captureWindow, getScreenRect,
\* getWindowRect and getWindowList has completed (returned or thrown, any
\* native call having been free to fail) and the libraries were not closed,
\* the engine holds no native handle: every source DC, memory DC, bitmap,
\* DIB section and icon-info bitmap it acquired has been released.
C1_NoHandleHeld == (AllIdle /\ LibsOpen) => held = {}

\* a capture that acquired the cursor's bitmaps and then failed has completed
C1_Witness ==
    /\ AllIdle /\ LibsOpen /\ held = {}
    /\ last.op = "captureScreen" /\ last.err = "DRAW_CURSOR"
    /\ "GetIconInfo" \in last.calls

\* C2: a capture that returns bytes has filled all `height` scan lines of the
\* pixel region; no capture returns although a native step only partly
\* completed.
C2_NoPartialCapture ==
    (last.op \in CaptureOps /\ last.status = "ok") => last.rows = last.height

\* C3: a capture call made after close() has returned fails with CLOSED and
\* dispatches no native call.
C3_ClosedCallFails ==
    /\ \A p \in Procs :
         (proc[p].op \in CaptureOps /\ proc[p].born = "closed") => proc[p].calls = {}
    /\ (last.op \in CaptureOps /\ last.born = "closed")
          => (last.err = "CLOSED" /\ last.calls = {})

\* C4: close() on a closed engine raises nothing, and over any sequence of
\* close() calls each library is closed exactly once.
C4_CloseIdempotent ==
    /\ ~closeErr
    /\ closeCalls["user32"] <= 1
    /\ closeCalls["gdi32"] <= 1

\* C28: no native call is dispatched through user32 or gdi32 after close()
\* has closed them, under any interleaving: a capture that began on open
\* libraries and waited in BitBlt, PrintWindow or GetDIBits while close() ran
\* invokes none of its remaining steps and none of its cleanup on the closed
\* libraries, and the handles it holds are released when it completes.
C28_NoDispatchAfterClose ==
    /\ \A p \in Procs :
         (proc[p].op \in CaptureOps /\ proc[p].born = "open") => ~closedUse
    /\ (last.op \in CaptureOps /\ last.born = "open") => (~closedUse /\ held = {})

\* the resolved area of captureScreen's a-th argument is empty or negative
InvalidArg(a) ==
    \/ CaptureArea(RectArgs[a], ScreenRect).width <= 0
    \/ CaptureArea(RectArgs[a], ScreenRect).height <= 0

\* C5 (as stated): captureScreen with a rectangle of width or height <= 0
\* fails with INVALID_REGION, and no native call is dispatched before that.
C5_NoNativeCallBeforeInvalidRegion ==
    /\ \A p \in Procs :
         (proc[p].op = "captureScreen" /\ InvalidArg(proc[p].arg)) => proc[p].calls = {}
    /\ (last.op = "captureScreen" /\ InvalidArg(last.arg))
          => (last.err = "INVALID_REGION" /\ last.calls = {})

\* C5 (amended): captureScreen with a rectangle of width or height <= 0 runs
\* getScreenRect first and nothing else: it dispatches only GetDCEx,
\* GetDeviceCaps and ReleaseDC on the screen DC of getScreenRect, acquires no
\* capture DC, memory DC or bitmap, and fails with INVALID_REGION, or with
\* DC_UNAVAILABLE when getScreenRect could not get the screen DC.
C5_InvalidRegionAfterScreenRect ==
    /\ \A p \in Procs :
         (proc[p].op = "captureScreen" /\ InvalidArg(proc[p].arg))
            => /\ proc[p].pc \in {"gsr_getdc", "gsr_caps", "gsr_rel"}
               /\ proc[p].calls \subseteq {"GetDCEx", "GetDeviceCaps"}
               /\ proc[p].hSrc = Null /\ proc[p].hMem = Null /\ proc[p].hBmp = Null
    /\ (last.op = "captureScreen" /\ InvalidArg(last.arg))
          => /\ \/ last.err = "INVALID_REGION"
                      /\ last.calls = {"GetDCEx", "GetDeviceCaps", "ReleaseDC"}
                \/ last.err = "DC_UNAVAILABLE" /\ last.calls = {"GetDCEx"}
             /\ \A h \in held : h.owner # last.slot

\* captureScreen({left: -10, top: 0, right: -10, bottom: 5}) has failed
C5_Witness ==
    /\ last.op = "captureScreen" /\ last.arg = 2
    /\ last.err = "INVALID_REGION" /\ last.width = 0

\* the least integer not below a / b, for b > 0
CeilDiv(a, b) == -((-a) \div b)

\* C10: for a window with raw rectangle (l, t, r, b) and DPI D > 0,
\* getWindowRect returns exactly (ceil(l*D/96), ceil(t*D/96), ceil(r*D/96),
\* ceil(b*D/96)); when the DPI read returns 0 it fails with DPI_UNAVAILABLE,
\* and when the read of the rectangle fails it fails with OS_FAILURE.
C10_ExactDpiScaling ==
    last.op = "getWindowRect" =>
        LET w == WindowOf(last.hwnd)
        IN  /\ last.status = "ok" =>
                 last.rect = [left   |-> CeilDiv(w.rect.left * w.dpi, 96),
                              top    |-> CeilDiv(w.rect.top * w.dpi, 96),
                              right  |-> CeilDiv(w.rect.right * w.dpi, 96),
                              bottom |-> CeilDiv(w.rect.bottom * w.dpi, 96)]
            /\ (last.status = "error" /\ "GetDpiForWindow" \in last.calls)
                 => last.err = "DPI_UNAVAILABLE"
            /\ (last.status = "error" /\ "GetWindowRect" \in last.calls
                  /\ "GetDpiForWindow" \notin last.calls)
                 => last.err = "OS_FAILURE"

\* the a-th identifier names a title, class name or process id that no visible
\* window of the chain has
Unmatched(a) ==
    /\ a \in 1..Len(IdentArgs)
    /\ IdentArgs[a].by # "handle"
    /\ \A i \in 1..Len(WindowChain) :
         WindowChain[i].visible =>
            CASE IdentArgs[a].by = "title" -> WindowChain[i].title # IdentArgs[a].title
              [] IdentArgs[a].by = "className" ->
                    WindowChain[i].className # IdentArgs[a].className
              [] IdentArgs[a].by = "processId" ->
                    /\ WindowChain[i].processId # IdentArgs[a].processId
                    /\ WindowChain[i].threadId # IdentArgs[a].processId

\* the native functions that acquire a DC or a bitmap
AcquiringCalls ==
    {"GetDCEx", "CreateCompatibleDC", "CreateCompatibleBitmap", "CreateDIBSection",
     "GetIconInfo"}

\* C11: captureWindow and getWindowRect with a title, class name or process id
\* that no visible window has fail with WINDOW_NOT_FOUND, after the sibling
\* chain has been walked (FindWindowExW and IsWindowVisible were dispatched),
\* and without having acquired a DC or a bitmap.
C11_UnmatchedIsNotFound ==
    /\ \A p \in Procs :
         (proc[p].op \in {"captureWindow", "getWindowRect"} /\ proc[p].born = "open"
            /\ Unmatched(proc[p].arg))
           => proc[p].pc = "find" /\ proc[p].calls = {}
    /\ (last.op \in {"captureWindow", "getWindowRect"} /\ last.born = "open"
          /\ Unmatched(last.arg))
         => /\ last.err = "WINDOW_NOT_FOUND"
            /\ {"FindWindowExW", "IsWindowVisible"} \subseteq last.calls
            /\ last.calls \cap AcquiringCalls = {}
            /\ \A h \in held : h.owner # last.slot

\* the call that takes the step: the one holding the thread, or the one that
\* takes the thread when its awaited native call has completed
Actor == IF running # 0 THEN running ELSE running'

\* the handles in the local variables of a frame
FrameHandles(f) == {f.hGsr, f.hSrc, f.hMem, f.hBmp, f.hMask, f.hColor} \ {Null}

\* every handle held was acquired by a call still in flight and is in that
\* call's local variables, no call has another call's handle in its own, and
\* a call that completed has released all it acquired
HandlesStayWithTheirCall ==
    /\ \A h \in held : h.owner \in DOMAIN proc /\ h \in FrameHandles(proc[h.owner])
    /\ \A p \in DOMAIN proc : \A h \in FrameHandles(proc[p]) : h.owner = p /\ h \in held
    /\ last.slot # 0 => \A h \in held : h.owner # last.slot

\* a step acquires and releases handles of the acting call only and writes no
\* other call's local variables, the BMP buffer among them
StepTouchesOwnCallOnly ==
    /\ \A h \in (held \ held') \cup (held' \ held) : h.owner = Actor
    /\ \A q \in DOMAIN proc : q # Actor => proc'[q] = proc[q]

\* a step taken while another call is in flight changes nothing that calls
\* have in common: options, library handles, process-wide settings
StepLeavesSharedState ==
    (\E q \in DOMAIN proc : q # Actor /\ proc[q].op # "idle")
        => UNCHANGED <<libOpen, includeCursor, dpiAware>>

\* C12: with two or more calls in flight, interleaved at their suspension
\* points in any order, each call releases exactly the handles it acquired and
\* never a handle of another call, the buffer a call returns is allocated and
\* written by that call only, and the calls share no state but the two
\* library handles (which no call changes).
C12_CallsAreIsolated ==
    []HandlesStayWithTheirCall /\ [][StepTouchesOwnCallOnly /\ StepLeavesSharedState]_vars

\* C13: a capture that fails, at whatever step, leaves what later calls
\* depend on as it was when the call began: no step of a call changes the
\* options or the library handles, and the process-wide DPI awareness after
\* the failed call is the one before it.
C13_FailedCallChangesNothing ==
    /\ []((last.op \in CaptureOps /\ last.status = "error" /\ last.born = "open")
            => dpiAware = last.aware)
    /\ [][Actor # 0 => UNCHANGED <<libOpen, includeCursor>>]_vars

\* C15: whatever fails in captureWindow, the error that reaches the caller is
\* one of WINDOW_NOT_FOUND, INVALID_REGION, DC_UNAVAILABLE, PRINT_FAILED,
\* GET_BITS_FAILED and CLOSED; no other kind (from resolving the window, from
\* reading its rectangle or DPI, from compositing the cursor) gets out.
C15_CaptureWindowErrorKinds ==
    (last.op = "captureWindow" /\ last.status = "error")
        => last.err \in {"WINDOW_NOT_FOUND", "INVALID_REGION", "DC_UNAVAILABLE",
                         "PRINT_FAILED", "GET_BITS_FAILED", "CLOSED"}

\* what the position of a capture says about the handles it holds: each is
\* acquired with all earlier ones in hand, and released with all later ones
\* already released
CaptureOrder(f) ==
    /\ f.hMem # Null => f.hSrc # Null
    /\ f.hBmp # Null => f.hMem # Null
    /\ f.hOld # Null => f.hBmp # Null
    /\ f.hMask # Null => f.hOld # Null
    /\ f.hColor # Null => f.hOld # Null
    /\ f.pc = "memdc"  => f.hSrc # Null /\ f.hMem = Null
    /\ f.pc = "bitmap" => f.hMem # Null /\ f.hBmp = Null
    /\ f.pc = "select" => f.hBmp # Null /\ f.hOld = Null
    /\ f.pc \in {"blit_cs", "blit_cw"} => f.hOld # Null /\ BlitFn(f.op) \notin f.calls
    /\ f.pc \in {"blit_wait", "cur_info", "cur_icon", "cur_aware", "cur_dpi", "cur_draw",
                  "cur_delmask", "cur_delcolor", "getdibits", "getdibits_wait"}
          => f.hOld # Null /\ BlitFn(f.op) \in f.calls /\ f.rows = 0
    /\ f.pc \in {"getdibits", "getdibits_wait"} => f.hMask = Null /\ f.hColor = Null
    /\ f.pc = "fin_select" => f.hOld # Null /\ f.hMask = Null /\ f.hColor = Null
    /\ f.pc = "fin_delobj" => f.hBmp # Null /\ f.hOld = Null
    /\ f.pc = "fin_deldc"  => f.hMem # Null /\ f.hBmp = Null
    /\ f.pc = "fin_reldc"  => f.hSrc # Null /\ f.hMem = Null
    /\ f.rows # 0 => f.pc \in {"fin_select", "fin_delobj", "fin_deldc", "fin_reldc"}

\* C16: a capture acquires the source DC, the memory DC and the bitmap,
\* selects the bitmap, blits or prints, draws the cursor if asked to and
\* copies the pixels, in that order; on success and on every failure it
\* releases in the reverse order from the furthest point reached (selection
\* restored, then bitmap deleted, then memory DC deleted, then source DC
\* released), issues no release for a handle it did not get, and copies the
\* pixels out while the bitmap is still there and selected.
C16_ReverseOrderRelease ==
    /\ [](\A p \in DOMAIN proc : proc[p].op \in CaptureOps => CaptureOrder(proc[p]))
    /\ [][\A p \in DOMAIN proc :
            (proc[p].op \in CaptureOps /\ proc'[p].rows # proc[p].rows /\ proc'[p].rows # 0)
               => /\ proc[p].hBmp # Null /\ proc[p].hOld # Null
                  /\ proc'[p].hBmp # Null /\ proc'[p].pc = "fin_select"]_vars

\* a capture whose SelectObject failed has deleted its bitmap and is about to
\* delete its memory DC
C16_Witness ==
    \E p \in DOMAIN proc :
        /\ proc[p].op \in CaptureOps /\ proc[p].pc = "fin_deldc"
        /\ proc[p].err = "SELECT_FAILED" /\ "DeleteObject" \in proc[p].calls
        /\ proc[p].hBmp = Null /\ proc[p].hMem # Null /\ proc[p].hSrc # Null

\* the frame is suspended in an awaited native call: BitBlt for captureScreen,
\* PrintWindow or GetDIBits for captureWindow
Suspended(f) ==
    \/ f.op = "captureScreen" /\ f.pc = "blit_wait" /\ "BitBlt" \in f.calls
    \/ f.op = "captureWindow" /\ f.pc = "blit_wait" /\ "PrintWindow" \in f.calls
          /\ "GetDIBits" \notin f.calls
    \/ f.op = "captureWindow" /\ f.pc = "getdibits_wait" /\ "GetDIBits" \in f.calls

\* C17: a call is off the thread only while its BitBlt, PrintWindow or
\* GetDIBits is in progress: captureScreen suspends once (BitBlt),
\* captureWindow twice (PrintWindow, then GetDIBits), each function awaited
\* once; at every other position the call holds the thread, so while it runs
\* (from the completion of BitBlt through cursor compositing and copy-out,
\* inside getScreenRect, getWindowRect and getWindowList, and through the
\* cleanup) no other call takes a step.
C17_SuspendsOnlyInAwaitedCalls ==
    /\ [](\A q \in DOMAIN proc :
            (proc[q].op # "idle" /\ running # q) => Suspended(proc[q]))
    /\ [][/\ running # 0 => \A q \in DOMAIN proc : q # running => proc'[q] = proc[q]
          /\ \A q \in DOMAIN proc :
                (proc'[q].pc \in {"blit_wait", "getdibits_wait"} /\ proc'[q].pc # proc[q].pc)
                   => /\ running = q /\ running' = 0
                      /\ proc[q].calls \cap {"BitBlt", "PrintWindow", "GetDIBits"}
                            = IF proc'[q].pc = "blit_wait" THEN {} ELSE {"PrintWindow"}]_vars

\* a captureScreen waits for BitBlt and a captureWindow for GetDIBits while
\* the thread is free
C17_Witness ==
    /\ running = 0
    /\ \E p, q \in DOMAIN proc :
          /\ proc[p].op = "captureScreen" /\ proc[p].pc = "blit_wait"
          /\ proc[q].op = "captureWindow" /\ proc[q].pc = "getdibits_wait"

\* does window w have the title, class name or process id the identifier names
Names(ident, w) ==
    CASE ident.by = "title" -> w.title = ident.title
      [] ident.by = "className" -> w.className = ident.className
      [] ident.by = "processId" -> w.processId = ident.processId

\* C18: findWindow returns the handle of a {handle} identifier as it is, with
\* no native call; for a {title}, {className} or {processId} identifier the
\* window it returns is visible, has exactly that title, class name or
\* process id, and is the first such window in sibling order (no invisible
\* window is returned, whether or not it matches and comes first).
C18_FirstVisibleMatch ==
    \A p \in DOMAIN proc :
        (proc[p].op \in {"captureWindow", "getWindowRect"} /\ proc[p].pc = "gwr_rect")
        => LET ident == IdentArgs[proc[p].arg]
           IN  IF ident.by = "handle"
               THEN proc[p].hwnd = ident.handle /\ proc[p].calls = {}
               ELSE \E i \in 1..Len(WindowChain) :
                       /\ WindowChain[i].hwnd = proc[p].hwnd
                       /\ WindowChain[i].visible /\ Names(ident, WindowChain[i])
                       /\ \A j \in 1..(i - 1) :
                             ~(WindowChain[j].visible /\ Names(ident, WindowChain[j]))

\* the handles of the visible windows among the first n of the chain, in
\* chain order
RECURSIVE VisibleHandles(_)
VisibleHandles(n) ==
    IF n = 0 THEN <<>>
    ELSE VisibleHandles(n - 1) \o
         (IF WindowChain[n].visible THEN <<WindowChain[n].hwnd>> ELSE <<>>)

\* C19: getWindowList returns one entry for every visible top-level window
\* and none for an invisible one, in the order of the FindWindowExW chain;
\* it reads no property of an invisible window; and when the class name,
\* process id or style read of a visible window returns 0 the call fails
\* and returns no list, not even the entries gathered before.
C19_VisibleWindowsInChainOrder ==
    /\ \A p \in DOMAIN proc :
          (proc[p].op = "getWindowList" /\ proc[p].pc = "gwl_window")
          => /\ [k \in 1..Len(proc[p].list) |-> proc[p].list[k].handle]
                   = VisibleHandles(proc[p].idx - 1)
             /\ VisibleHandles(proc[p].idx - 1) = <<>>
                   => proc[p].calls \subseteq {"FindWindowExW", "IsWindowVisible"}
    /\ last.op = "getWindowList"
          => /\ last.status = "ok"
                   => [k \in 1..Len(last.list) |-> last.list[k].handle]
                         = VisibleHandles(Len(WindowChain))
             /\ last.status = "error" => last.list = <<>>
             /\ last.err \in {"CLASS_NAME_UNAVAILABLE", "PROCESS_ID_UNAVAILABLE",
                               "STYLE_UNAVAILABLE"}
                   => "IsWindowVisible" \in last.calls /\ "GetClassNameW" \in last.calls

\* getWindowList has returned the two visible windows of the three in the chain
C19_Witness ==
    /\ last.op = "getWindowList" /\ last.status = "ok"
    /\ Len(last.list) = 2 /\ last.list[1].handle = 2 /\ last.list[2].handle = 3
    /\ Len(WindowChain) = 3

\* the bitmaps call p has acquired and not deleted
BitmapsOf(p) == {h \in held : h.owner = p /\ h.kind = "bitmap"}

\* C20: once drawCursorOnDC has the icon info, the mask bitmap and the colour
\* bitmap of the icon info are each deleted exactly once before it returns or
\* throws, also when SetProcessDPIAware, GetDpiForSystem or DrawIconEx fails;
\* as long as it has no icon info (cursor info unavailable, cursor not
\* showing, no cursor handle, GetIconInfo failed) it has acquired no bitmap.
C20_IconBitmapsDeletedOnce ==
    \A p \in DOMAIN proc :
        proc[p].op \in CaptureOps =>
            LET f == proc[p]
            IN  /\ f.pc \in {"cur_aware", "cur_dpi", "cur_draw", "cur_delmask"}
                      => /\ "GetIconInfo" \in f.calls
                         /\ f.hMask # Null
                         /\ BitmapsOf(p) = ({f.hBmp, f.hMask, f.hColor} \ {Null})
                /\ f.pc = "cur_delcolor"
                      => /\ f.hMask = Null /\ f.hColor # Null
                         /\ BitmapsOf(p) = {f.hBmp, f.hColor}
                /\ f.pc \notin {"cur_aware", "cur_dpi", "cur_draw", "cur_delmask",
                                 "cur_delcolor"}
                      => /\ f.hMask = Null /\ f.hColor = Null
                         /\ BitmapsOf(p) = ({f.hBmp} \ {Null})
                /\ f.err \in {"DPI_AWARE", "SYSTEM_DPI", "DRAW_CURSOR"}
                      => f.pc \in {"cur_delmask", "cur_delcolor"} \/ "DeleteObject" \in f.calls

\* DrawIconEx has failed for a colour cursor: the mask bitmap is deleted, the
\* colour bitmap is about to be
C20_Witness ==
    \E p \in DOMAIN proc :
        /\ proc[p].op \in CaptureOps /\ proc[p].pc = "cur_delcolor"
        /\ proc[p].err = "DRAW_CURSOR"
        /\ proc[p].hMask = Null /\ proc[p].hColor \in held


(***************************************************************************)
(* Byte buffers.  A Uint8Array is a sequence of bytes; the byte at offset  *)
(* off of the code is element off + 1 of the sequence.                     *)
(***************************************************************************)
\* Math.round of a double: the nearest integer, halves towards +Infinity
FRound(x) ==
    IF x.e >= 0 THEN (IF x.neg THEN -1 ELSE 1) * BToInt(BShl(x.m, x.e))
    ELSE LET \* g is the floor of |x|, h the floor of 2 * |x|
             nearest(g, h) ==
                 IF x.neg
                 THEN -(g.int + (IF BOdd(h) /\ BShl(h, (-x.e) - 1) # x.m THEN 1 ELSE 0))
                 ELSE g.int + (IF BOdd(h) THEN 1 ELSE 0)
         IN  nearest(FMagnitude(x), BShr(x.m, (-x.e) - 1))

\* new Uint8Array(n)
Zeroes(n) == [k \in 1..n |-> 0]

\* the n bytes of DataView.setUintN / setIntN (v, littleEndian = true)
LE(v, n) == [k \in 1..n |-> (v \div 256^(k - 1)) % 256]

\* buf after the bytes are written at offset off (DataView.set*, Uint8Array.set);
\* every write of the code lies inside the buffer
Patch(buf, off, bytes) ==
    SubSeq(buf, 1, off) \o bytes \o SubSeq(buf, off + Len(bytes) + 1, Len(buf))

\* buf after a sequence of writes <<off, bytes>>, in program order
RECURSIVE Store(_, _)
Store(buf, writes) ==
    IF writes = <<>> THEN buf
    ELSE Store(Patch(buf, writes[1][1], writes[1][2]), Tail(writes))

\* would a DataView read of n bytes at off stay inside the view
InView(buf, off, n) == off >= 0 /\ off + n <= Len(buf)

\* DataView.getUint8 / getUint16 / getUint32 (off, true), for values below 2^31
RECURSIVE GetUint(_, _, _)
GetUint(buf, off, n) ==
    IF n = 0 THEN 0 ELSE buf[off + 1] + 256 * GetUint(buf, off + 1, n - 1)

\* DataView.getInt32(off, true)
GetInt32(buf, off) ==
    GetUint(buf, off, 3) + 2^24 * (IF buf[off + 4] >= 128 THEN buf[off + 4] - 256 ELSE buf[off + 4])

(***************************************************************************)
(* The palettes (ScreenCapture.ts 885-1033), as RGBQUAD bytes.             *)
(***************************************************************************)
\* RGBQUADs of a table of triples, the triple's components in the given order
Quads(colors, order) ==
    [k \in 1..(4 * Len(colors)) |->
        IF (k - 1) % 4 = 3 THEN 0 ELSE colors[((k - 1) \div 4) + 1][order[((k - 1) % 4) + 1]]]

generate1BitPalette == <<0, 0, 0, 0, 255, 255, 255, 0>>

\* (mutant) the sixteen colours, red and blue swapped
generate4BitPaletteSwapped ==
    Quads(<< <<0, 0, 0>>, <<0, 0, 128>>, <<0, 128, 0>>, <<0, 128, 128>>,
             <<128, 0, 0>>, <<128, 0, 128>>, <<128, 128, 0>>, <<192, 192, 192>>,
             <<128, 128, 128>>, <<0, 0, 255>>, <<0, 255, 0>>, <<0, 255, 255>>,
             <<255, 0, 0>>, <<255, 0, 255>>, <<255, 255, 0>>, <<255, 255, 255>> >>,
          <<3, 2, 1>>)

generate4BitPalette ==
    Quads(<< <<0, 0, 0>>, <<0, 0, 128>>, <<0, 128, 0>>, <<0, 128, 128>>,
             <<128, 0, 0>>, <<128, 0, 128>>, <<128, 128, 0>>, <<192, 192, 192>>,
             <<128, 128, 128>>, <<0, 0, 255>>, <<0, 255, 0>>, <<0, 255, 255>>,
             <<255, 0, 0>>, <<255, 0, 255>>, <<255, 255, 0>>, <<255, 255, 255>> >>,
          <<1, 2, 3>>)

generate8BitGrayscalePalette ==
    [k \in 1..(4 * 256) |-> IF (k - 1) % 4 = 3 THEN 0 ELSE (k - 1) \div 4]

generate8BitHalftonePalette ==
    LET standardColors ==
            << <<0, 0, 0>>, <<128, 0, 0>>, <<0, 128, 0>>, <<128, 128, 0>>,
               <<0, 0, 128>>, <<128, 0, 128>>, <<0, 128, 128>>, <<192, 192, 192>>,
               <<128, 128, 128>>, <<255, 0, 0>>, <<0, 255, 0>>, <<255, 255, 0>>,
               <<0, 0, 255>>, <<255, 0, 255>>, <<0, 255, 255>>, <<255, 255, 255>>,
               <<0, 0, 0>>, <<0, 0, 95>>, <<0, 0, 175>>, <<0, 0, 255>> >>
        cube == [n \in 1..216 |->
                    <<((n - 1) % 6) * 51, (((n - 1) \div 6) % 6) * 51, ((n - 1) \div 36) * 51>>]
        grays == [n \in 1..20 |->
                    LET gray == FRound(FMulInt(n - 1, FDivInt(255, 19)))
                    IN  <<gray, gray, gray>>]
    IN  Quads(standardColors, <<3, 2, 1>>) \o Quads(cube, <<1, 2, 3>>)
            \o Quads(grays, <<1, 2, 3>>)

(***************************************************************************)
(* The BMP assembler (ScreenCapture.ts 271-383).                           *)
(***************************************************************************)
BMP_INFO_HEADER_SIZE == 40
BMP_HEADER_SIZE == 14

BitDepths == {1, 4, 8, 16, 24, 32}
PaletteTypes == {"grayscale", "halftone"}

\* (mutant) no depth has a palette
NumColorsNone(bitDepth) == 0

getNumColorsForBitDepth(bitDepth) ==
    CASE bitDepth = 1 -> 2
      [] bitDepth = 4 -> 16
      [] bitDepth = 8 -> 256
      [] OTHER -> 0

\* the palette bytes; <<>> stands for null
getPaletteForBitDepth(bitDepth, paletteType) ==
    CASE bitDepth = 1 -> generate1BitPalette
      [] bitDepth = 4 -> generate4BitPalette
      [] bitDepth = 8 -> IF paletteType = "grayscale" THEN generate8BitGrayscalePalette
                         ELSE generate8BitHalftonePalette
      [] OTHER -> <<>>

\* (mutant) the palette is left out of the offset
PixelDataOffsetOfHeaders(paletteSize) == BMP_HEADER_SIZE + BMP_INFO_HEADER_SIZE

\* const pixelDataOffset = BMP_HEADER_SIZE + BMP_INFO_HEADER_SIZE + paletteSize
PixelDataOffset(paletteSize) == BMP_HEADER_SIZE + BMP_INFO_HEADER_SIZE + paletteSize

\* (mutant) rows are not padded to four bytes
StrideUnpadded(bitDepth, width) == (bitDepth * width + 7) \div 8

\* const stride = Math.floor((this.bitDepth * width + 31) / 32) * 4
Stride(bitDepth, width) == FFloor(FDivInt(bitDepth * width + 31, 32)) * 4

createBitmapBuffers(bitDepth, paletteType, width, height) ==
    LET \* the BITMAPINFOHEADER fields, as writes relative to the header's start
        infoHeader(numColors, imageSize) ==
            << <<0, LE(BMP_INFO_HEADER_SIZE, 4)>>, <<4, LE(width, 4)>>, <<8, LE(height, 4)>>,
               <<12, LE(1, 2)>>, <<14, LE(bitDepth, 2)>>, <<16, LE(0, 4)>>,
               <<20, LE(imageSize, 4)>>, <<24, LE(0, 4)>>, <<28, LE(0, 4)>>,
               <<32, LE(numColors, 4)>>, <<36, LE(numColors, 4)>> >>
        \* the same writes behind the file header
        shifted(header) ==
            [n \in 1..11 |-> <<BMP_HEADER_SIZE + header[n][1], header[n][2]>>]
        buffers(numColors, palette, pixelDataOffset, pixelDataSize) ==
            [bmiBuffer |->
                Store(Zeroes(BMP_INFO_HEADER_SIZE + numColors * 4),
                      infoHeader(numColors, 0) \o << <<BMP_INFO_HEADER_SIZE, palette>> >>),
             bmpBuffer |->
                Store(Zeroes(pixelDataOffset + pixelDataSize),
                      << <<0, <<66>> >>, <<1, <<77>> >>,
                         <<2, LE(pixelDataOffset + pixelDataSize, 4)>>,
                         <<6, LE(0, 4)>>, <<8, LE(0, 2)>>,
                         <<10, LE(pixelDataOffset, 4)>> >>
                      \o shifted(infoHeader(numColors, pixelDataSize))
                      \o << <<BMP_HEADER_SIZE + BMP_INFO_HEADER_SIZE, palette>> >>),
             pixelDataOffset |-> pixelDataOffset]
        sized(numColors) ==
            buffers(numColors, getPaletteForBitDepth(bitDepth, paletteType),
                    PixelDataOffset(numColors * 4), Stride(bitDepth, width) * height)
    IN  sized(getNumColorsForBitDepth(bitDepth))

(***************************************************************************)
(* The BMP decoder (bmpToRgb.ts).  A call ends in one of three ways: it    *)
(* returns an image, it throws, or it never returns.                       *)
(***************************************************************************)
Thrown(err) == [status |-> "throw", err |-> err]
Hangs == [status |-> "hang"]

\* storing a number into a Uint8Array element
ToUint8(n) == n % 256

\* the smallest element of a non-empty set of integers
Least(S) == CHOOSE n \in S : \A m \in S : n <= m

\* the bytes of the output buffer, when P[n] is what the decoder computes for
\* the n-th pixel in the order of its loops (y outer, x inner): <<r, g, b, a>>,
\* or <<err>> when computing it throws err.  Each pixel is written to its own
\* `channels` bytes, so the first pixel that throws decides the outcome.
WritePixels(count, channels, P) ==
    LET bad == {n \in 0..(count - 1) : Len(P[n]) = 1}
    IN  IF bad # {} THEN Thrown(P[Least(bad)][1])
        ELSE [status |-> "filled",
              data |-> [k \in 1..(count * channels) |->
                           ToUint8(P[(k - 1) \div channels][((k - 1) % channels) + 1])]]

\* a palette is a function on 0 .. colorsUsed - 1; each entry is <<r, g, b>>
readPalette(bmp, colorsUsed) ==
    [i \in 0..(colorsUsed - 1) |->
        LET offset == 14 + 40 + i * 4
        IN  IF offset + 3 < Len(bmp)
            THEN <<bmp[offset + 3], bmp[offset + 2], bmp[offset + 1]>>
            ELSE <<0, 0, 0>>]

\* r = palette[colorIndex][0] ...: a missing entry is undefined, indexing it throws
Lookup(palette, colorIndex, a) ==
    IF colorIndex \in DOMAIN palette THEN palette[colorIndex] \o <<a>> ELSE <<"TypeError">>

\* const stride = Math.floor((bitDepth * width + 31) / 32) * 4
RowStride(bitDepth, width) == FFloor(FDivInt(bitDepth * width + 31, 32)) * 4

\* the switch (bitDepth) of processUncompressedBitmap for pixel x of a row
UncompressedPixel(bmp, bitDepth, palette, srcRowOffset, x) ==
    LET indexed(byteOffset, shift, size) ==
            IF ~InView(bmp, byteOffset, 1) THEN <<"RangeError">>
            ELSE Lookup(palette, (bmp[byteOffset + 1] \div 2^shift) % size, 255)
        five(pixel, shift) == FFloor(FDivInt(((pixel \div 2^shift) % 32) * 255, 31))
    IN  CASE bitDepth = 1 -> indexed(srcRowOffset + (x \div 8), 7 - (x % 8), 2)
          [] bitDepth = 4 -> indexed(srcRowOffset + (x \div 2), (1 - (x % 2)) * 4, 16)
          [] bitDepth = 8 -> indexed(srcRowOffset + x, 0, 256)
          [] bitDepth = 16 ->
                LET byteOffset == srcRowOffset + x * 2
                IN  IF ~InView(bmp, byteOffset, 2) THEN <<"RangeError">>
                    ELSE LET pixel == GetUint(bmp, byteOffset, 2)
                         IN  <<five(pixel, 10), five(pixel, 5), five(pixel, 0), 255>>
          [] bitDepth = 24 ->
                LET byteOffset == srcRowOffset + x * 3
                IN  IF ~InView(bmp, byteOffset, 3) THEN <<"RangeError">>
                    ELSE <<bmp[byteOffset + 3], bmp[byteOffset + 2], bmp[byteOffset + 1], 255>>
          [] bitDepth = 32 ->
                LET byteOffset == srcRowOffset + x * 4
                IN  IF ~InView(bmp, byteOffset, 4) THEN <<"RangeError">>
                    ELSE <<bmp[byteOffset + 3], bmp[byteOffset + 2], bmp[byteOffset + 1],
                           bmp[byteOffset + 4]>>
          [] OTHER -> <<0, 0, 0, 255>>

\* (mutant) the stored rows are always taken as bottom-up
SrcYBottomUp(isTopDown, height, y) == height - 1 - y

\* const srcY = isTopDown ? y : (height - 1 - y)
SrcY(isTopDown, height, y) == IF isTopDown THEN y ELSE height - 1 - y

processUncompressedBitmap(bmp, width, height, bitDepth, pixelDataOffset, colorsUsed, isTopDown, channels) ==
    LET stride  == RowStride(bitDepth, width)
        palette == readPalette(bmp, colorsUsed)
        pixel(n) ==
            UncompressedPixel(bmp, bitDepth, palette,
                pixelDataOffset + SrcY(isTopDown, height, n \div width) * stride, n % width)
    IN  WritePixels(width * height, channels,
                    [n \in 0..(width * height - 1) |-> pixel(n)])

\* (mutant) only the end of the buffer is guarded
PutPixelFlat(decodedPixels, width, height, x, y, value) ==
    IF y * width + x < width * height
    THEN [decodedPixels EXCEPT ![y * width + x + 1] = value]
    ELSE decodedPixels

\* if (x < width && y < height) decodedPixels[y * width + x] = value
PutPixel(decodedPixels, width, height, x, y, value) ==
    IF x < width /\ y < height
    THEN [decodedPixels EXCEPT ![y * width + x + 1] = value]
    ELSE decodedPixels

\* the loop of an encoded run, from iteration j on: `count` pixels that take
\* values[1] when j is even and values[2] when j is odd.  s is the state of
\* the decode loop: input index i, position x and y, decodedPixels px.
RECURSIVE EncodedRun(_, _, _, _, _, _)
EncodedRun(s, width, height, count, j, values) ==
    IF j >= count THEN s
    ELSE EncodedRun([s EXCEPT !.px = PutPixel(s.px, width, height, s.x, s.y,
                                              values[(j % 2) + 1]),
                              !.x = s.x + 1],
                    width, height, count, j + 1, values)

\* the absolute-mode loop of processRLE8Bitmap, from iteration j on
RECURSIVE Absolute8(_, _, _, _, _, _)
Absolute8(bmp, s, width, height, value, j) ==
    IF j >= value \/ s.i >= Len(bmp) THEN s
    ELSE Absolute8(bmp,
                   [s EXCEPT !.px = PutPixel(s.px, width, height, s.x, s.y, bmp[s.i + 1]),
                             !.i = s.i + 1,
                             !.x = s.x + 1],
                   width, height, value, j + 1)

\* the absolute-mode loop of processRLE4Bitmap, from iteration j on;
\* nibbleIndex is j % 2
RECURSIVE Absolute4(_, _, _, _, _, _)
Absolute4(bmp, s, width, height, value, j) ==
    IF j >= value THEN s
    ELSE IF j % 2 = 0
    THEN IF s.i >= Len(bmp) THEN s
         ELSE Absolute4(bmp,
                        [s EXCEPT !.px = PutPixel(s.px, width, height, s.x, s.y,
                                                  (bmp[s.i + 1] \div 16) % 16),
                                  !.i = s.i + 1,
                                  !.x = s.x + 1],
                        width, height, value, j + 1)
    ELSE Absolute4(bmp,
                   [s EXCEPT !.px = PutPixel(s.px, width, height, s.x, s.y, bmp[s.i] % 16),
                             !.x = s.x + 1],
                   width, height, value, j + 1)

\* if (value % 2 === 1) i++
Rle8Pad(value) == IF value % 2 = 1 THEN 1 ELSE 0

\* if ((value + 1) / 2 % 2 === 1) i++ : the division is a Number division, so
\* for an even value the quotient ends in .5 and its remainder is never 1
Rle4Pad(value) ==
    IF (value + 1) % 2 = 0 /\ ((value + 1) \div 2) % 2 = 1 THEN 1 ELSE 0

\* one iteration of the while loop of processRLE8Bitmap (bitDepth 8) or of
\* processRLE4Bitmap (bitDepth 4)
RleStep(bmp, s, width, height, bitDepth) ==
    LET count == bmp[s.i + 1]
        value == bmp[s.i + 2]
        t     == [s EXCEPT !.i = s.i + 2]
    IN  IF count = 0
        THEN CASE value = 0 -> [t EXCEPT !.x = 0, !.y = s.y + 1]
               [] value = 1 -> [t EXCEPT !.i = Len(bmp)]
               [] value = 2 ->
                    IF t.i + 1 >= Len(bmp) THEN t
                    ELSE [t EXCEPT !.i = t.i + 2,
                                   !.x = s.x + bmp[t.i + 1],
                                   !.y = s.y + bmp[t.i + 2]]
               [] OTHER ->
                    IF bitDepth = 8
                    THEN LET u == Absolute8(bmp, t, width, height, value, 0)
                         IN  [u EXCEPT !.i = u.i + Rle8Pad(value)]
                    ELSE LET u == Absolute4(bmp, t, width, height, value, 0)
                         IN  [u EXCEPT !.i = u.i + Rle4Pad(value)]
        ELSE EncodedRun(t, width, height, count, 0,
                        IF bitDepth = 8 THEN <<value, value>>
                        ELSE <<(value \div 16) % 16, value % 16>>)

\* while (i < dataView.byteLength - 1 && y < height)
RECURSIVE RleLoop(_, _, _, _, _)
RleLoop(bmp, s, width, height, bitDepth) ==
    IF s.i < Len(bmp) - 1 /\ s.y < height
    THEN RleLoop(bmp, RleStep(bmp, s, width, height, bitDepth), width, height, bitDepth)
    ELSE s

\* the body shared by processRLE8Bitmap and processRLE4Bitmap: decode the
\* stream into palette indices, then convert them row by row
ProcessRle(bmp, width, height, bitDepth, pixelDataOffset, colorsUsed, isTopDown, channels) ==
    LET palette == readPalette(bmp, colorsUsed)
        start   == [i |-> pixelDataOffset, x |-> 0, y |-> 0, px |-> Zeroes(width * height)]
        decodedPixels == RleLoop(bmp, start, width, height, bitDepth).px
        pixel(n) ==
            Lookup(palette,
                   decodedPixels[SrcY(isTopDown, height, n \div width) * width + (n % width) + 1],
                   255)
    IN  WritePixels(width * height, channels,
                    [n \in 0..(width * height - 1) |-> pixel(n)])

processRLE8Bitmap(bmp, width, height, pixelDataOffset, colorsUsed, isTopDown, channels) ==
    ProcessRle(bmp, width, height, 8, pixelDataOffset, colorsUsed, isTopDown, channels)

processRLE4Bitmap(bmp, width, height, pixelDataOffset, colorsUsed, isTopDown, channels) ==
    ProcessRle(bmp, width, height, 4, pixelDataOffset, colorsUsed, isTopDown, channels)

(***************************************************************************)
(* 32-bit values under the bit operators of JavaScript (a value is first   *)
(* converted to int32): a function from bit position 0..31 to 0 or 1.      *)
(***************************************************************************)
\* the bits of a natural below 2^31
BitsOf(n) == [k \in 0..31 |-> IF k = 31 THEN 0 ELSE (n \div 2^k) % 2]

\* DataView.getUint16 / getUint32 (off, true), as bits
GetBits(buf, off, n) ==
    [k \in 0..31 |-> IF k < 8 * n THEN (buf[off + (k \div 8) + 1] \div 2^(k % 8)) % 2 ELSE 0]

ZeroBits == [k \in 0..31 |-> 0]

\* a & b
BitAnd(a, b) == [k \in 0..31 |-> a[k] * b[k]]

\* m >> 1: the sign bit is kept
Sar(m) == [k \in 0..31 |-> m[IF k = 31 THEN 31 ELSE k + 1]]

RECURSIVE SarBy(_, _)
SarBy(m, shift) == IF shift = 0 THEN m ELSE SarBy(Sar(m), shift - 1)

\* the int32 the bits denote
RECURSIVE LowBits(_, _)
LowBits(m, k) == IF k > 30 THEN 0 ELSE m[k] + 2 * LowBits(m, k + 1)

Int32Of(m) == LowBits(m, 0) - m[31] * 2^30 - m[31] * 2^30

\* the loop of findLowestSetBit: while ((mask & 1) === 0) { mask >>= 1; shift++ }
RECURSIVE LowestSetBitLoop(_, _)
LowestSetBitLoop(mask, shift) ==
    IF mask[0] = 1 THEN shift ELSE LowestSetBitLoop(Sar(mask), shift + 1)

findLowestSetBit(mask) == IF mask = ZeroBits THEN 0 ELSE LowestSetBitLoop(mask, 0)

\* countBits has no result when its loop does not end
Diverges == 0 - 1

\* the loop of countBits: while (m) { count += m & 1; m >>= 1 }.  When m is
\* -1 the shift leaves m as it is, and the loop runs for ever.
RECURSIVE CountBitsLoop(_, _)
CountBitsLoop(m, count) ==
    IF m = ZeroBits THEN count
    ELSE IF Sar(m) = m THEN Diverges
    ELSE CountBitsLoop(Sar(m), count + m[0])

countBits(mask) == IF mask = ZeroBits THEN 0 ELSE CountBitsLoop(mask, 0)

\* (mutant) the scaled value is cut off instead of rounded
ScaleChannelFloor(pixel, mask, shift, bits) ==
    LET v == Int32Of(SarBy(BitAnd(pixel, mask), shift))
        scaled == CASE bits = 0 -> 0
                    [] bits \in 1..14 -> FFloor(FMulInt(v, FDivInt(255, 2^bits - 1)))
    IN  IF scaled > 255 THEN 255 ELSE scaled

\* Math.min(255, Math.round(((pixel & mask) >> shift) * scale)) with
\* scale = bits > 0 ? 255 / ((1 << bits) - 1) : 0, for masks of up to 14 bits
ScaleChannel(pixel, mask, shift, bits) ==
    LET v == Int32Of(SarBy(BitAnd(pixel, mask), shift))
        scaled == CASE bits = 0 -> 0
                    [] bits \in 1..14 -> FRound(FMulInt(v, FDivInt(255, 2^bits - 1)))
    IN  IF scaled > 255 THEN 255 ELSE scaled

processBitfieldsBitmap(bmp, width, height, bitDepth, pixelDataOffset, headerSize, isTopDown, channels) ==
    LET readAlpha == \/ headerSize = 40 /\ bitDepth = 32 /\ pixelDataOffset >= 14 + 52 + 4
                     \/ headerSize >= 56
        readMasks == headerSize = 40 \/ headerSize >= 56
        red0   == IF readMasks THEN GetBits(bmp, 14 + 40, 4) ELSE ZeroBits
        green0 == IF readMasks THEN GetBits(bmp, 14 + 44, 4) ELSE ZeroBits
        blue0  == IF readMasks THEN GetBits(bmp, 14 + 48, 4) ELSE ZeroBits
        alpha0 == IF readAlpha THEN GetBits(bmp, 14 + 52, 4) ELSE ZeroBits
        none   == red0 = ZeroBits /\ green0 = ZeroBits /\ blue0 = ZeroBits
        redMask   == IF none /\ bitDepth = 16 THEN BitsOf(31744)
                     ELSE IF none /\ bitDepth = 32 THEN BitsOf(255 * 2^16) ELSE red0
        greenMask == IF none /\ bitDepth = 16 THEN BitsOf(992)
                     ELSE IF none /\ bitDepth = 32 THEN BitsOf(255 * 2^8) ELSE green0
        blueMask  == IF none /\ bitDepth = 16 THEN BitsOf(31)
                     ELSE IF none /\ bitDepth = 32 THEN BitsOf(255) ELSE blue0
        alphaMask == IF none /\ bitDepth = 32
                     THEN [k \in 0..31 |-> IF k >= 24 THEN 1 ELSE 0] ELSE alpha0
        masks  == <<redMask, greenMask, blueMask, alphaMask>>
        shifts == [c \in 1..4 |-> findLowestSetBit(masks[c])]
        bits   == [c \in 1..4 |-> countBits(masks[c])]
        bytesPerPixel == bitDepth \div 8
        stride == RowStride(bitDepth, width)
        pixel(n) ==
            LET byteOffset == pixelDataOffset
                                + SrcY(isTopDown, height, n \div width) * stride
                                + (n % width) * bytesPerPixel
                size == IF bitDepth = 16 THEN 2 ELSE 4
                word == GetBits(bmp, byteOffset, size)
            IN  IF ~InView(bmp, byteOffset, size) THEN <<"RangeError">>
                ELSE <<ScaleChannel(word, redMask, shifts[1], bits[1]),
                       ScaleChannel(word, greenMask, shifts[2], bits[2]),
                       ScaleChannel(word, blueMask, shifts[3], bits[3]),
                       IF alphaMask # ZeroBits
                       THEN ScaleChannel(word, alphaMask, shifts[4], bits[4]) ELSE 255>>
    IN  IF (readMasks /\ ~InView(bmp, 14 + 40, 12)) \/ (readAlpha /\ ~InView(bmp, 14 + 52, 4))
        THEN Thrown("RangeError")
        ELSE IF \E c \in 1..4 : bits[c] = Diverges THEN Hangs
        ELSE WritePixels(width * height, channels,
                    [n \in 0..(width * height - 1) |-> pixel(n)])

\* (mutant) an alpha channel for every true-colour depth
ChannelsTrueColor(bitDepth) == IF bitDepth >= 24 THEN 4 ELSE 3

\* const channels = bitDepth === 32 ? 4 : 3
Channels(bitDepth) == IF bitDepth = 32 THEN 4 ELSE 3

\* bmpToRgb, for buffers whose 32-bit header fields are below 2^31
bmpToRgb(bmp) ==
    IF ~InView(bmp, 0, 1) THEN Thrown("RangeError")
    ELSE IF bmp[1] # 66 THEN Thrown("INVALID_BMP")
    ELSE IF ~InView(bmp, 1, 1) THEN Thrown("RangeError")
    ELSE IF bmp[2] # 77 THEN Thrown("INVALID_BMP")
    ELSE IF ~InView(bmp, 46, 4) THEN Thrown("RangeError")
    ELSE
    LET pixelDataOffset == GetUint(bmp, 10, 4)
        headerSize  == GetUint(bmp, 14, 4)
        width       == GetInt32(bmp, 18)
        signed      == GetInt32(bmp, 22)
        bitDepth    == GetUint(bmp, 28, 2)
        compression == GetUint(bmp, 30, 4)
        stored      == GetUint(bmp, 46, 4)
        isTopDown   == signed < 0
        height      == Abs(signed)
        colorsUsed  == IF stored = 0 /\ bitDepth <= 8 THEN 2^bitDepth ELSE stored
        channels    == Channels(bitDepth)
        filled ==
            CASE compression = 0 ->
                    processUncompressedBitmap(bmp, width, height, bitDepth, pixelDataOffset,
                                              colorsUsed, isTopDown, channels)
              [] compression = 1 ->
                    IF bitDepth # 8 THEN Thrown("RLE8_DEPTH")
                    ELSE processRLE8Bitmap(bmp, width, height, pixelDataOffset, colorsUsed,
                                           isTopDown, channels)
              [] compression = 2 ->
                    IF bitDepth # 4 THEN Thrown("RLE4_DEPTH")
                    ELSE processRLE4Bitmap(bmp, width, height, pixelDataOffset, colorsUsed,
                                           isTopDown, channels)
              [] compression = 3 ->
                    IF bitDepth # 16 /\ bitDepth # 32 THEN Thrown("BITFIELDS_DEPTH")
                    ELSE processBitfieldsBitmap(bmp, width, height, bitDepth, pixelDataOffset,
                                                headerSize, isTopDown, channels)
              [] OTHER -> Thrown("UNSUPPORTED_COMPRESSION")
        result(f) ==
            IF f.status = "filled"
            THEN [status |-> "ok", width |-> width, height |-> height, channels |-> channels,
                  data |-> f.data]
            ELSE f
    IN  IF width * height * channels < 0 THEN Thrown("RangeError") ELSE result(filled)

(***************************************************************************)
(* The bytes of a capture: what captureScreen returns when every native    *)
(* call succeeded, for each bit depth, palette type and size, and for      *)
(* several contents of the DIB section.                                    *)
(***************************************************************************)
MaxCaptureW == 3
MaxCaptureH == 2

\* byte k of a region is (seed + step * k) mod 256
Fills == {[seed |-> 0, step |-> 0], [seed |-> 255, step |-> 0], [seed |-> 11, step |-> 37]}

\* the pixel bytes the OS left in the DIB section
OsPixels(fill, n) == [k \in 1..n |-> (fill.seed + fill.step * (k - 1)) % 256]

\* captureScreen 569, 618-620: createBitmapBuffers (whose BITMAPINFO goes to
\* CreateDIBSection), then copyInto the
\* subarray behind the headers
CapturedBmp(bitDepth, paletteType, width, height, fill) ==
    LET copyInto(b) == Patch(b.bmpBuffer, b.pixelDataOffset,
                             OsPixels(fill, Len(b.bmpBuffer) - b.pixelDataOffset))
    IN  copyInto(createBitmapBuffers(bitDepth, paletteType, width, height))

CaptureBytes(bitDepth, paletteType, width, height, fill) ==
    /\ job.pc = "none"
    /\ job' = [pc |-> "captured", bitDepth |-> bitDepth, paletteType |-> paletteType,
               width |-> width, height |-> height,
               bmi |-> createBitmapBuffers(bitDepth, paletteType, width, height).bmiBuffer,
               bmp |-> CapturedBmp(bitDepth, paletteType, width, height, fill)]
    /\ UNCHANGED engineVars

\* bmpToRgb(await capture.captureScreen(...))
DecodeCapture ==
    /\ job.pc = "captured"
    /\ job' = [pc |-> "decoded", bitDepth |-> job.bitDepth, paletteType |-> job.paletteType,
               width |-> job.width, height |-> job.height, bmi |-> job.bmi,
               bmp |-> job.bmp, out |-> bmpToRgb(job.bmp)]
    /\ UNCHANGED engineVars

\* the buffers are dropped
Discard ==
    /\ job.pc \in {"decoded", "decoded2"}
    /\ job' = NoJob
    /\ UNCHANGED engineVars

NextCapture ==
    \/ \E bitDepth \in BitDepths, paletteType \in PaletteTypes,
          width \in 1..MaxCaptureW, height \in 1..MaxCaptureH, fill \in Fills :
            CaptureBytes(bitDepth, paletteType, width, height, fill)
    \/ DecodeCapture
    \/ Discard

\* the engine is idle while buffers are studied
InitBuffers == EngineInit /\ includeCursor /\ job = NoJob

SpecCapture == InitBuffers /\ [][NextCapture]_vars

\* C7: in every BMP the engine emits, the pixel offset stored at byte 10 is
\* 14 + 40 + 4 * numColors (numColors 2, 16, 256 for depth 1, 4, 8, else 0),
\* the image size stored at byte 34 is stride * height with
\* stride = floor((bitDepth * width + 31) / 32) * 4, and the file size stored
\* at byte 2 and the length of the buffer are both pixel offset + stride * height.
C7_HeaderMatchesPixels ==
    job.pc \in {"captured", "decoded"} =>
        LET numColors   == CASE job.bitDepth = 1 -> 2 [] job.bitDepth = 4 -> 16
                             [] job.bitDepth = 8 -> 256 [] OTHER -> 0
            pixelOffset == 14 + 40 + 4 * numColors
            stride      == ((job.bitDepth * job.width + 31) \div 32) * 4
        IN  /\ GetUint(job.bmp, 10, 4) = pixelOffset
            /\ GetUint(job.bmp, 34, 4) = stride * job.height
            /\ GetUint(job.bmp, 2, 4) = pixelOffset + stride * job.height
            /\ Len(job.bmp) = pixelOffset + stride * job.height

\* a 3x2 capture at 4 bits: 64 palette bytes, rows of 12 bits padded to 4 bytes
C7_Witness ==
    /\ job.pc = "captured" /\ job.bitDepth = 4 /\ job.width = 3 /\ job.height = 2
    /\ Len(job.bmp) = 14 + 40 + 64 + 8
    /\ GetUint(job.bmp, 10, 4) = 118

\* C6: for every bit depth, palette type and size, and whatever bytes the OS
\* wrote into the pixel region, bmpToRgb of the buffer a successful
\* captureScreen returned completes without error and returns the captured
\* width and height.
C6_RoundTrip ==
    job.pc = "decoded" =>
        /\ job.out.status = "ok"
        /\ job.out.width = job.width
        /\ job.out.height = job.height

\* an 8-bit halftone capture of 3x2 ramp bytes was decoded to 18 RGB bytes
C6_Witness ==
    /\ job.pc = "decoded" /\ job.bitDepth = 8 /\ job.paletteType = "halftone"
    /\ job.width = 3 /\ job.height = 2
    /\ job.bmp[14 + 40 + 1024 + 2] = 48
    /\ job.out.status = "ok" /\ Len(job.out.data) = 18

\* C21 (as stated): the BITMAPINFO that createBitmapBuffers builds holds the
\* same 40-byte info header, in all eleven fields, and the same palette bytes
\* as bytes 14 .. 14 + 40 + paletteSize - 1 of the BMP buffer.
C21_BitmapInfoEqualsFileHeader ==
    job.pc = "captured" => job.bmi = SubSeq(job.bmp, 14 + 1, 14 + Len(job.bmi))

\* C21 (amended): the BITMAPINFO is 40 + 4 * numColors bytes long and ends
\* where the pixels of the BMP buffer begin; it agrees with bytes 14 ..
\* 14 + 40 + paletteSize - 1 of the BMP buffer in every byte except those of
\* the image size field (header bytes 20..23), which is 0 in the BITMAPINFO
\* and stride * height in the BMP buffer.
C21_BitmapInfoDiffersInImageSize ==
    job.pc = "captured" =>
        /\ Len(job.bmi) = 40 + 4 * GetUint(job.bmi, 32, 4)
        /\ Len(job.bmi) = GetUint(job.bmp, 10, 4) - 14
        /\ \A k \in 1..Len(job.bmi) : k \notin 21..24 => job.bmi[k] = job.bmp[14 + k]
        /\ GetUint(job.bmi, 20, 4) = 0
        /\ GetUint(job.bmp, 14 + 20, 4)
              = ((job.bitDepth * job.width + 31) \div 32) * 4 * job.height

\* a 3x2 capture at 4 bits: a BITMAPINFO of 40 + 64 bytes with image size 0,
\* while the file header says 8
C21_Witness ==
    /\ job.pc = "captured" /\ job.bitDepth = 4 /\ job.width = 3 /\ job.height = 2
    /\ Len(job.bmi) = 104 /\ GetUint(job.bmi, 20, 4) = 0 /\ GetUint(job.bmp, 34, 4) = 8

\* the sixteen VGA colours as (red, green, blue): black, dark red, dark
\* green, dark yellow, dark blue, dark magenta, dark cyan, light gray, dark
\* gray, red, green, yellow, blue, magenta, cyan, white
VgaColours ==
    << <<0, 0, 0>>, <<128, 0, 0>>, <<0, 128, 0>>, <<128, 128, 0>>,
       <<0, 0, 128>>, <<128, 0, 128>>, <<0, 128, 128>>, <<192, 192, 192>>,
       <<128, 128, 128>>, <<255, 0, 0>>, <<0, 255, 0>>, <<255, 255, 0>>,
       <<0, 0, 255>>, <<255, 0, 255>>, <<0, 255, 255>>, <<255, 255, 255>> >>

\* palette entry i of a buffer whose palette begins at offset `at`
PaletteEntry(buf, at, i) == SubSeq(buf, at + 4 * i + 1, at + 4 * i + 4)

\* C25 (as stated): every emitted entry i of the 4-bit palette has as its
\* first byte the first component of the i-th listed colour, dark red =
\* (128,0,0) and so on, followed by the second and third components and a
\* reserved byte 0.
C25_PaletteEntriesAsListed ==
    (job.pc = "captured" /\ job.bitDepth = 4) =>
        \A i \in 0..15 :
            PaletteEntry(job.bmp, 54, i)
                = <<VgaColours[i + 1][1], VgaColours[i + 1][2], VgaColours[i + 1][3], 0>>

\* C25 (amended): entry i holds the third, second and first component
\* (blue, green, red) of the i-th listed colour and a reserved byte 0, in the
\* BMP buffer and in the BITMAPINFO alike.
C25_PaletteEntriesBlueFirst ==
    (job.pc = "captured" /\ job.bitDepth = 4) =>
        \A i \in 0..15 :
            /\ PaletteEntry(job.bmp, 54, i)
                 = <<VgaColours[i + 1][3], VgaColours[i + 1][2], VgaColours[i + 1][1], 0>>
            /\ PaletteEntry(job.bmi, 40, i) = PaletteEntry(job.bmp, 54, i)

\* a 4-bit capture whose palette entry 1 (dark red) is 00 00 80 00
C25_Witness ==
    /\ job.pc = "captured" /\ job.bitDepth = 4
    /\ PaletteEntry(job.bmp, 54, 1) = <<0, 0, 128, 0>>

(***************************************************************************)
(* The inputs of the decoder: BMP files that store an image in each        *)
(* compression the decoder knows, bottom-up and top-down, and damaged      *)
(* variants of them.  An image is its rows from top to bottom; a row is    *)
(* its packed bytes (BI_RGB, BI_BITFIELDS) or its palette indices (RLE).   *)
(***************************************************************************)
MaxImageW == 6
MaxImageH == 2

\* the files differ in compression, depth, colour masks and RLE run mode
Formats ==
    [compression : {0}, bitDepth : BitDepths, masks : {"-"}, mode : {"-"}]
    \cup [compression : {1}, bitDepth : {8}, masks : {"-"}, mode : {"encoded", "absolute"}]
    \cup [compression : {2}, bitDepth : {4}, masks : {"-"}, mode : {"encoded", "absolute"}]
    \cup [compression : {3}, bitDepth : {16}, masks : {"565", "555", "zero"}, mode : {"-"}]
    \cup [compression : {3}, bitDepth : {32}, masks : {"888", "8888", "zero"}, mode : {"-"}]

\* the colour masks stored behind the info header of a BI_BITFIELDS file
MaskBytes(masks) ==
    CASE masks = "565" -> LE(63488, 4) \o LE(2016, 4) \o LE(31, 4)
      [] masks = "555" -> LE(31744, 4) \o LE(992, 4) \o LE(31, 4)
      [] masks = "888" -> <<0, 0, 255, 0>> \o <<0, 255, 0, 0>> \o <<255, 0, 0, 0>>
      [] masks = "8888" -> <<0, 0, 255, 0>> \o <<0, 255, 0, 0>> \o <<255, 0, 0, 0>>
                               \o <<0, 0, 0, 255>>
      [] masks = "zero" -> Zeroes(12)
      [] OTHER -> <<>>

\* row r (0 is the top) of the image a fill denotes, in the units of a format
ImageRow(fmt, width, fill, r) ==
    IF fmt.compression \in {1, 2}
    THEN [j \in 1..width |->
             ((fill.seed + fill.step * (16 * r + j - 1)) % 256) % (2^fmt.bitDepth)]
    ELSE [j \in 1..((fmt.bitDepth * width + 7) \div 8) |->
             (fill.seed + fill.step * (16 * r + j - 1)) % 256]

RECURSIVE Flatten(_)
Flatten(seqs) == IF seqs = <<>> THEN <<>> ELSE seqs[1] \o Flatten(Tail(seqs))

\* the bytes that store one row
EncodeRow(fmt, width, row) ==
    LET packed == [k \in 1..((width + 1) \div 2) |->
                      16 * row[2 * k - 1] + (IF 2 * k <= width THEN row[2 * k] ELSE 0)]
        pad(n) == IF n % 2 = 1 THEN <<0>> ELSE <<>>
        eol    == <<0, 0>>
    IN  CASE fmt.compression = 1 /\ fmt.mode = "absolute" /\ width >= 3 ->
                <<0, width>> \o row \o pad(width) \o eol
          [] fmt.compression = 1 ->
                Flatten([j \in 1..width |-> <<1, row[j]>>]) \o eol
          [] fmt.compression = 2 /\ fmt.mode = "absolute" /\ width >= 3 ->
                <<0, width>> \o packed \o pad(Len(packed)) \o eol
          [] fmt.compression = 2 ->
                Flatten([k \in 1..Len(packed) |->
                            <<IF 2 * k <= width THEN 2 ELSE 1, packed[k]>>]) \o eol
          [] OTHER ->
                row \o Zeroes(((fmt.bitDepth * width + 31) \div 32) * 4 - Len(row))

\* the file that stores the rows (given from top to bottom) in a format:
\* bottom-up with a positive height, or top-down with a negative one
StoreBmp(fmt, width, rows, topDown) ==
    LET height    == Len(rows)
        numColors == getNumColorsForBitDepth(fmt.bitDepth)
        table     == IF fmt.compression = 3 THEN MaskBytes(fmt.masks)
                     ELSE getPaletteForBitDepth(fmt.bitDepth, "halftone")
        stored    == [n \in 1..height |->
                         EncodeRow(fmt, width, rows[IF topDown THEN n ELSE height + 1 - n])]
        body      == Flatten(stored) \o (IF fmt.compression \in {1, 2} THEN <<0, 1>> ELSE <<>>)
        offset    == 14 + 40 + Len(table)
        header    == Store(Zeroes(14 + 40),
                           << <<0, <<66, 77>> >>, <<2, LE(offset + Len(body), 4)>>,
                              <<10, LE(offset, 4)>>, <<14, LE(40, 4)>>, <<18, LE(width, 4)>>,
                              <<22, LE(IF topDown THEN -height ELSE height, 4)>>,
                              <<26, LE(1, 2)>>, <<28, LE(fmt.bitDepth, 2)>>,
                              <<30, LE(fmt.compression, 4)>>, <<34, LE(Len(body), 4)>>,
                              <<46, LE(numColors, 4)>>, <<50, LE(numColors, 4)>> >>)
    IN  header \o table \o body

\* the ways a file is damaged before it is decoded
Damages == {"none", "short", "depth2", "onecolor", "compression7", "negwidth", "nosig"}

Damage(bmp, damage, width) ==
    CASE damage = "short" -> SubSeq(bmp, 1, Len(bmp) - 1)
      [] damage = "depth2" -> Patch(bmp, 28, LE(2, 2))
      [] damage = "onecolor" -> Patch(bmp, 46, LE(1, 4))
      [] damage = "compression7" -> Patch(bmp, 30, LE(7, 4))
      [] damage = "negwidth" -> Patch(bmp, 18, LE(-width, 4))
      [] damage = "nosig" -> Patch(bmp, 0, <<0>>)
      [] OTHER -> bmp

\* the damaged files are those of the images whose bytes vary
StoreImage(fmt, width, height, fill, damage) ==
    /\ job.pc = "none"
    /\ damage = "none" \/ fill.step # 0
    /\ LET rows == [r \in 1..height |-> ImageRow(fmt, width, fill, r - 1)]
       IN  job' = [pc |-> "stored", fmt |-> fmt, width |-> width, height |-> height,
                   fill |-> fill, damage |-> damage,
                   up |-> Damage(StoreBmp(fmt, width, rows, FALSE), damage, width),
                   down |-> Damage(StoreBmp(fmt, width, rows, TRUE), damage, width)]
    /\ UNCHANGED engineVars

\* bmpToRgb of the bottom-up file and of the top-down file
DecodeBoth ==
    /\ job.pc = "stored"
    /\ job' = [pc |-> "decoded2", fmt |-> job.fmt, width |-> job.width,
               height |-> job.height, fill |-> job.fill, damage |-> job.damage,
               up |-> job.up, down |-> job.down,
               outUp |-> bmpToRgb(job.up), outDown |-> bmpToRgb(job.down)]
    /\ UNCHANGED engineVars

NextDecode ==
    \/ \E fmt \in Formats, width \in 1..MaxImageW, height \in 1..MaxImageH,
          fill \in Fills, damage \in Damages :
            StoreImage(fmt, width, height, fill, damage)
    \/ DecodeBoth
    \/ Discard

SpecDecode == InitBuffers /\ [][NextDecode]_vars

\* what C8 asks of one decoding
SizeContract(bmp, out) ==
    out.status = "ok" =>
        /\ out.width = GetInt32(bmp, 18)
        /\ out.height = Abs(GetInt32(bmp, 22))
        /\ out.channels = (IF GetUint(bmp, 28, 2) = 32 THEN 4 ELSE 3)
        /\ Len(out.data) = out.width * out.height * out.channels

\* C8: whatever BMP is passed to bmpToRgb and whatever its compression, the
\* data it returns has length width * |height| * channels for the width and
\* the signed height of the header, and channels is 4 exactly when the bit
\* depth of the header is 32, and 3 otherwise.
C8_DecoderSizeContract ==
    job.pc = "decoded2" =>
        /\ SizeContract(job.up, job.outUp)
        /\ SizeContract(job.down, job.outDown)

\* a top-down RLE4 file of 5x2 pixels (header height -2) decoded to 30 bytes
C8_Witness ==
    /\ job.pc = "decoded2" /\ job.damage = "none"
    /\ job.fmt.compression = 2 /\ job.fmt.mode = "absolute"
    /\ job.width = 5 /\ job.height = 2
    /\ GetInt32(job.down, 22) = -2
    /\ job.outDown.status = "ok" /\ job.outDown.height = 2
    /\ Len(job.outDown.data) = 30

\* C9: the bottom-up file and the top-down file of one image decode to the
\* same bytes, and the first row of the output is the top row of the image
\* (what decoding the top row alone gives), in each of the branches BI_RGB,
\* RLE8, RLE4 and BITFIELDS.  Stated for the decodings that return.
C9_OrientationIndependent ==
    (/\ job.pc = "decoded2" /\ job.damage = "none"
     /\ job.outUp.status = "ok" /\ job.outDown.status = "ok")
    => LET top == bmpToRgb(StoreBmp(job.fmt, job.width,
                                    <<ImageRow(job.fmt, job.width, job.fill, 0)>>, FALSE))
       IN  /\ job.outUp.data = job.outDown.data
           /\ SubSeq(job.outUp.data, 1, job.width * job.outUp.channels) = top.data

\* C29: while palettised data is decoded (BI_RGB at 1, 4 or 8 bits, RLE8,
\* RLE4), every palette lookup uses an index smaller than the number of
\* entries readPalette produced, whatever the header's colorsUsed field
\* holds: no pixel index addresses a missing palette entry (reading a
\* component of a missing entry raises a TypeError).
C29_PaletteIndexInRange ==
    (job.pc = "decoded2" /\ job.fmt.bitDepth <= 8) =>
        /\ job.outUp # Thrown("TypeError")
        /\ job.outDown # Thrown("TypeError")


(***************************************************************************)
(* RLE8 streams given byte by byte: a BI_RLE8 file of 8 bits per pixel     *)
(* whose 256-entry palette has (10,20,30) at 0x41, (40,50,60) at 0x42 and  *)
(* (k+7, 8, 9) at any other index k, so palette[0] is (7,8,9).             *)
(***************************************************************************)
StreamBmp(stream, width, height, topDown) ==
    LET colour(k) == CASE k = 65 -> <<30, 20, 10, 0>>
                       [] k = 66 -> <<60, 50, 40, 0>>
                       [] OTHER  -> <<9, 8, (k + 7) % 256, 0>>
        offset == 14 + 40 + 256 * 4
        header == Store(Zeroes(14 + 40),
                        << <<0, <<66, 77>> >>, <<2, LE(offset + Len(stream), 4)>>,
                           <<10, LE(offset, 4)>>, <<14, LE(40, 4)>>, <<18, LE(width, 4)>>,
                           <<22, LE(IF topDown THEN -height ELSE height, 4)>>,
                           <<26, LE(1, 2)>>, <<28, LE(8, 2)>>, <<30, LE(1, 4)>>,
                           <<34, LE(Len(stream), 4)>>, <<46, LE(256, 4)>>,
                           <<50, LE(256, 4)>> >>)
    IN  header \o [n \in 1..(256 * 4) |-> colour((n - 1) \div 4)[((n - 1) % 4) + 1]] \o stream

StoreStream(stream, width, height, topDown) ==
    /\ job.pc = "none"
    /\ job' = [pc |-> "stream", stream |-> stream, width |-> width, height |-> height,
               topDown |-> topDown, bmp |-> StreamBmp(stream, width, height, topDown)]
    /\ UNCHANGED engineVars

DecodeStream ==
    /\ job.pc = "stream"
    /\ job' = [pc |-> "streamed", stream |-> job.stream, width |-> job.width,
               height |-> job.height, topDown |-> job.topDown, bmp |-> job.bmp,
               out |-> bmpToRgb(job.bmp)]
    /\ UNCHANGED engineVars

\* encoded runs with an end of line between them or behind them, an absolute
\* run, a delta, a run longer than the row, a stream without end of bitmap
NextStream ==
    \/ \E stream \in {<<3, 65, 0, 0, 2, 66, 0, 1>>, <<3, 65, 2, 66, 0, 0, 0, 1>>,
                       <<0, 3, 66, 65, 66, 0, 0, 0, 2, 65, 0, 1>>,
                       <<0, 2, 1, 1, 2, 66, 0, 1>>, <<7, 65, 0, 1>>, <<3, 65>>},
          width \in 1..MaxImageW, height \in 1..MaxImageH, topDown \in BOOLEAN :
            StoreStream(stream, width, height, topDown)
    \/ DecodeStream

SpecStream == InitBuffers /\ [][NextStream]_vars

\* the stream 03 41 00 00 02 42 00 01 of a top-down 5x2 image was decoded
StreamCase ==
    /\ job.pc = "streamed"
    /\ job.stream = <<3, 65, 0, 0, 2, 66, 0, 1>>
    /\ job.width = 5 /\ job.height = 2 /\ job.topDown

MaxRun == 12
MaxChannelBits == 6

\* a BI_RLE8 or BI_RLE4 file is handed to the decoder, which stands before
\* the first iteration of its loop: let x = 0, y = 0; let i = pixelDataOffset
StoreRle(bitDepth, stream, width, height) ==
    /\ job.pc = "none"
    /\ LET file(rle8) == IF bitDepth = 8 THEN rle8
                         ELSE Patch(Patch(rle8, 28, LE(4, 2)), 30, LE(2, 4))
           begin(bmp) ==
               [pc |-> "rle", bitDepth |-> bitDepth, width |-> width, height |-> height,
                bmp |-> bmp, steps |-> 0,
                s |-> [i |-> GetUint(bmp, 10, 4), x |-> 0, y |-> 0,
                       px |-> Zeroes(width * height)],
                prev |-> [i |-> GetUint(bmp, 10, 4), x |-> 0, y |-> 0,
                          px |-> Zeroes(width * height)]]
       IN  job' = begin(file(StreamBmp(stream, width, height, FALSE)))
    /\ UNCHANGED engineVars

\* one iteration of while (i < dataView.byteLength - 1 && y < height)
StepRle ==
    /\ job.pc = "rle"
    /\ job.s.i < Len(job.bmp) - 1 /\ job.s.y < job.height
    /\ job' = [job EXCEPT !.prev = job.s, !.steps = job.steps + 1,
                          !.s = RleStep(job.bmp, job.s, job.width, job.height, job.bitDepth)]
    /\ UNCHANGED engineVars

\* bmpToRgb of a 1x1 file of 16 or 32 bits per pixel, BI_RGB or BI_BITFIELDS
DecodePixel(fmt, value) ==
    /\ job.pc = "none"
    /\ LET decoded(bmp) == [pc |-> "pixel", fmt |-> fmt, value |-> value, bmp |-> bmp,
                            out |-> bmpToRgb(bmp)]
       IN  job' = decoded(StoreBmp(fmt, 1, <<LE(value, fmt.bitDepth \div 8)>>, FALSE))
    /\ UNCHANGED engineVars

\* streams: an absolute run of every length 3..MaxRun, stored as the format
\* asks (data padded to a 16-bit boundary) and followed by an encoded run; a
\* delta inside the image and one that leaves it; runs longer than a row; a
\* delta and an absolute run cut short by the end of the file; a stream
\* without end of bitmap.  Pixel values: every value of every channel.
NextUnits ==
    \/ \E bitDepth \in {4, 8}, width \in 1..MaxImageW, height \in 1..MaxImageH :
         LET bytes(n) == IF bitDepth = 8 THEN n ELSE (n + 1) \div 2
             data(n)  == [k \in 1..bytes(n) |-> 16 * (k % 16) + ((k + 1) % 16)]
             pad(n)   == IF bytes(n) % 2 = 1 THEN <<0>> ELSE <<>>
         IN  \E stream \in {<<0, n>> \o data(n) \o pad(n) \o <<2, 66, 0, 1>> : n \in 3..MaxRun}
                           \cup {<<0, 2, 1, 1, 2, 66, 0, 1>>, <<0, 2, 7, 3, 5, 66, 0, 1>>,
                                 <<9, 65, 0, 0, 9, 66, 0, 1>>, <<2, 65, 0, 2, 9>>,
                                 <<0, 5, 65, 66>>, <<3, 65>>} :
                 StoreRle(bitDepth, stream, width, height)
    \/ StepRle
    \/ \E fmt \in {f \in Formats : f.bitDepth = 16},
          x \in 0..(2^MaxChannelBits - 1), k \in {0, 5, 10, 11, 15} :
            DecodePixel(fmt, (x * 2^k) % 65536)
    \/ \E fmt \in {f \in Formats : f.bitDepth = 32},
          x \in 0..(2^MaxChannelBits - 1), k \in {0, 8, 16, 24} :
            DecodePixel(fmt, x * 2^k + (IF k = 24 THEN 197121 ELSE 0))

SpecUnits == InitBuffers /\ [][NextUnits]_vars

\* the opcode of the iteration that was just taken, and the bytes it used
RunBytes == job.s.i - job.prev.i
AbsoluteRun(bitDepth, n) ==
    /\ job.pc = "rle" /\ job.steps > 0 /\ job.bitDepth = bitDepth
    /\ job.bmp[job.prev.i + 1] = 0 /\ job.bmp[job.prev.i + 2] = n

\* C22: in RLE4 absolute mode a literal run of N >= 3 pixels consumes
\* ceil(N/2) data bytes and one further pad byte if and only if ceil(N/2) is
\* odd, so that the next opcode is read from a 16-bit-aligned position
\* relative to the start of the run (runs whose bytes the file holds).
C22_Rle4AbsoluteRunIsPadded ==
    \A n \in 3..MaxRun :
        (AbsoluteRun(4, n) /\ job.prev.i + 2 + CeilDiv(n, 2) + 1 <= Len(job.bmp))
        => /\ RunBytes = 2 + CeilDiv(n, 2) + (IF CeilDiv(n, 2) % 2 = 1 THEN 1 ELSE 0)
           /\ RunBytes % 2 = 0

\* v * 255 / (2^bits - 1) rounded to the nearest integer (halves upwards),
\* and rounded up, in integer arithmetic
ScaledNearest(v, bits) == (2 * v * 255 + (2^bits - 1)) \div (2 * (2^bits - 1))
ScaledUp(v, bits) == CeilDiv(v * 255, 2^bits - 1)

\* a file of one pixel in the given format was decoded
PixelOf(compression, bitDepth, masks) ==
    /\ job.pc = "pixel" /\ job.fmt.compression = compression
    /\ job.fmt.bitDepth = bitDepth /\ job.fmt.masks = masks

\* C23: a BITFIELDS file whose red, green and blue masks are all zero is
\* decoded with the default masks and decoding completes: at 32 bits the
\* pixel stored as bytes (b0,b1,b2,b3) gives (R,G,B,A) = (b2,b1,b0,b3), at
\* 16 bits the pixel is decoded as 5-5-5 (R = bits 10..14, G = bits 5..9,
\* B = bits 0..4).
C23_ZeroMasksUseDefaults ==
    /\ PixelOf(3, 32, "zero") =>
          /\ job.out.status = "ok"
          /\ job.out.data = <<(job.value \div 65536) % 256, (job.value \div 256) % 256,
                              job.value % 256, job.value \div 16777216>>
    /\ PixelOf(3, 16, "zero") =>
          /\ job.out.status = "ok"
          /\ job.out.data = <<ScaledNearest((job.value \div 1024) % 32, 5),
                              ScaledNearest((job.value \div 32) % 32, 5),
                              ScaledNearest(job.value % 32, 5)>>

\* the 16-bit half of C23 alone
C23_ZeroMasks16 ==
    PixelOf(3, 16, "zero") =>
          /\ job.out.status = "ok"
          /\ job.out.data = <<ScaledNearest((job.value \div 1024) % 32, 5),
                              ScaledNearest((job.value \div 32) % 32, 5),
                              ScaledNearest(job.value % 32, 5)>>

\* the channels of the mask sets without alpha: shift and bit count of red,
\* green and blue, and the decoded channels the given rounding would give
ChannelLayout(masks) ==
    CASE masks = "565" -> << <<11, 5>>, <<5, 6>>, <<0, 5>> >>
      [] masks = "888" -> << <<16, 8>>, <<8, 8>>, <<0, 8>> >>
      [] OTHER -> << <<10, 5>>, <<5, 5>>, <<0, 5>> >>
ChannelsScaled(masks, value, up) ==
    [c \in 1..3 |->
        LET at == ChannelLayout(masks)[c]
            v  == (value \div 2^at[1]) % 2^at[2]
            scaled == IF up THEN ScaledUp(v, at[2]) ELSE ScaledNearest(v, at[2])
        IN  IF scaled > 255 THEN 255 ELSE scaled]
NoAlphaPixel ==
    /\ job.pc = "pixel" /\ job.fmt.compression = 3
    /\ job.fmt.masks \in {"565", "555", "888"} \/ job.fmt.bitDepth = 16

StepInRoomyImage ==
    LET roomy(w, h) == RleStep(job.bmp, [job.prev EXCEPT !.px = Zeroes(w * h)], w, h,
                               job.bitDepth)
    IN  roomy(job.prev.x + 256, job.prev.y + 256)

\* C26: in RLE8 and RLE4 decoding, delta moves and overrunning runs
\* included, a pixel whose position has x >= width or y >= height is never
\* written: the index buffer keeps its width * height entries, an iteration
\* changes entries of the current row only, at columns from the x it began
\* with, and the input index and the position advance as they do when every
\* pixel is written.
C26_NoWriteOutsideTheImage ==
    (job.pc = "rle" /\ job.steps > 0) =>
        /\ Len(job.s.px) = job.width * job.height
        /\ \A k \in 1..Len(job.s.px) :
              job.s.px[k] # job.prev.px[k] =>
                  /\ (k - 1) \div job.width = job.prev.y
                  /\ (k - 1) % job.width >= job.prev.x
                  /\ (k - 1) % job.width < job.s.x
        /\ LET same(t) == job.s.i = t.i /\ job.s.x = t.x /\ job.s.y = t.y
           IN  same(StepInRoomyImage)

\* a run that began inside the row and ended beyond its last column
C26_Witness ==
    /\ job.pc = "rle" /\ job.steps > 0
    /\ job.prev.x < job.width /\ job.s.x > job.width /\ job.prev.y < job.height
    /\ job.s.px # job.prev.px

\* each iteration of the RLE8 / RLE4 decode loop strictly advances the
\* input index
LoopAdvances == (job.pc = "rle" /\ job.steps > 0) => job.s.i > job.prev.i

\* C27: bmpToRgb terminates (returns or throws) on every input: each
\* iteration of the RLE decode loops strictly advances the input index, and
\* findLowestSetBit and countBits terminate for every 32-bit mask read from
\* the file, masks with bit 31 set included.
C27_DecoderTerminates ==
    /\ LoopAdvances
    /\ job.pc = "pixel" => job.out.status \in {"ok", "throw"}

\* C30: a 16-bit BMP decodes to the same RGB bytes whether it is marked
\* BI_RGB or BI_BITFIELDS with the 5-5-5 masks R = 0x7C00, G = 0x03E0,
\* B = 0x001F: for every 16-bit pixel value the two branches give the same
\* (R, G, B).
C30_SameDecodeAsBitfields555 ==
    PixelOf(0, 16, "-") =>
        LET marked(fmt) == bmpToRgb(StoreBmp(fmt, 1, <<LE(job.value, 2)>>, FALSE))
        IN  job.out = marked([compression |-> 3, bitDepth |-> 16, masks |-> "555",
                              mode |-> "-"])

=============================================================================
